---- MODULE Spec2Model ----
(***************************************************************************)
(* A model of SimpleJVM (thanhhungg97/jvm): the monitor fabric, the        *)
(* interpreter's frame stack with exception propagation and the callback   *)
(* bridge, the heap's mark-sweep collector and the event loop.             *)
(*                                                                         *)
(* Each subsystem has its own specification (SpecMonitor, SpecInterp,      *)
(* SpecHeap, SpecLoop); the variables of the other subsystems stay at      *)
(* their initial values.                                                   *)
(***************************************************************************)
EXTENDS Integers, Sequences, FiniteSets, TLC

(* ------------------------------------------------------------------ *)
(* Bounds of the model                                                 *)
(* ------------------------------------------------------------------ *)

\* number of host threads that use the one monitor
NumThreads == 3
\* Enter is not called once entryCount has reached this value
MaxEntry == 2

VARIABLES
    \* ---- Monitor (runtime/jvm.go) ----
    owner,        \* Monitor.owner: a thread, or NoThread for nil
    entryCount,   \* Monitor.entryCount
    waitSet,      \* Monitor.waitSet, a sequence of threads
    condQ,        \* goroutines parked in m.cond.Wait(), in ticket order
    mpc,          \* per thread: where it stands inside a Monitor method
    savedCount,   \* per thread: the local savedCount of Monitor.Wait
    lastOp,       \* the call or resumption that took the last step
    mres,         \* what that step returned: "ok", the error, or "none" (blocked)
    held,         \* per thread: Enter calls returned minus Exit calls that succeeded
    notified,     \* per thread: a Notify/NotifyAll by another thread since its Wait began
    nest,         \* <<t, n, k>>: t made n Enters on a free monitor, then k Exits, nothing else
    \* ---- Interpreter (interpreter.go, helpers.go, runtime/thread.go) ----
    prog,         \* the loaded class: method name -> [desc, maxStack, maxLocals, code, table]
    stack,        \* Thread.stack: the frames, the current frame last
    nextId,       \* the identity the next frame gets (frames are compared by pointer)
    pendingRunnables,        \* EventLoop.tasks: the Runnable references submitted, oldest first
    elRunning,    \* EventLoop.running: the run native is inside EventLoop.Run
    bridge,       \* the runUntilFrameCompletes call in progress: target frame, entry depth
    runState,     \* "running", or how Interpreter.run ended: "done", "error"
    runErr,       \* the error run returned
    lastBridge,   \* the last callback-bridge call that returned: depths and error
    lastThrow,    \* the last exception propagation: class, frames before and after, error
    \* ---- Heap (heap.go) ----
    objects,      \* Heap.objects: heap id -> the object stored under it
    nextID,       \* Heap.nextID
    totalBytes,   \* Heap.totalBytes
    freeCount,    \* Heap.freeCount
    gcRuns,       \* Heap.gcRuns
    gcThreshold,  \* Heap.gcThreshold
    gcEnabled,    \* Heap.gcEnabled
    fields,       \* Object.Fields["next"] of every object: another object or Nil
    heapState,    \* "ok", or "stack overflow" once mark recursed without end
    lastGC,       \* the collection the last step completed: roots, heap before and after
    \* ---- Event loop (eventloop.go) ----
    clock,        \* the time, in milliseconds
    tasks,        \* EventLoop.tasks: the queued task ids, oldest first
    timers,       \* EventLoop.timers: the binary heap, as its array
    running,      \* EventLoop.running
    stopped,      \* whether the channel EventLoop.stopped is closed
    lpc,          \* where the goroutine inside Run is
    now,          \* fireReadyTimers' local now
    wake,         \* when the loop's sleep ends
    hasTimers,    \* Run's local hasTimers
    taskCount,    \* EventLoop.taskCount
    timerCount,   \* EventLoop.timerCount
    submitted,    \* how many tasks have been submitted
    scheduled,    \* how many timers have been scheduled
    tick,         \* the current iteration: the deadlines due at its start, what ran
    \* ---- EventLoop.RunFor ----
    rfCaller,     \* the goroutine that called RunFor: not yet, in its select, returned how
    rfGo,         \* the goroutine RunFor starts: before Run, inside Run, done closed
    rfDeadline,   \* when RunFor's time.After channel becomes ready
    \* ---- Heap.Alloc called from several goroutines ----
    allocs,       \* each goroutine's call of Heap.Alloc: where it is, its id and object
    returned,     \* the ids Alloc has returned, in the order of the returns
    \* ---- OperandStack and LocalVars cell by cell (frame.go) ----
    opstack,      \* an OperandStack: size, the primitive cells and the reference cells
    locals,       \* a LocalVars: the primitive cells and the reference cells
    wrote,        \* for each cell pair, the kind of the latest write into it
    \* ---- Shared structures and their locks (runtime/jvm.go, runtime/thread.go, natives.go, eventloop.go) ----
    gpc,          \* per goroutine: the JVM, Thread, NativeRegistry or EventLoop method it is inside
    classMutex,   \* JVM.classMutex: the writer holding it, the readers holding it
    monitorMutex, \* JVM.monitorMutex: the goroutine holding it, or NoThread
    elMu,         \* EventLoop.mu: the goroutine holding it, or NoThread
    classCache,   \* JVM.classCache, which every Thread.Classes refers to: the names cached
    monitorMap,   \* JVM.monitors: the objects that have a monitor
    nativeMethods, \* NativeRegistry.methods: the keys registered
    timerPushes,  \* the number of timers pushed on EventLoop.timers
    raceFatal,    \* the Go runtime ended the process on a concurrent map access
    \* ---- Monitor registry (jvm.go GetOrCreateMonitor, instructions.go) ----
    regPc,        \* per goroutine: where it stands in MONITORENTER / MONITOREXIT
    monitors,     \* JVM.monitors: reference -> monitor, NoMonitor for no entry
    allocated,    \* the monitors made so far (each &Monitor{} is a new identity)
    regMutex,     \* JVM.monitorMutex, as taken by GetOrCreateMonitor
    regOwner,     \* Monitor.owner of every monitor made
    regCount,     \* Monitor.entryCount of every monitor made
    enteredWith,  \* per goroutine and reference: the monitors its monitorenters acquired, latest last
    handedOut,    \* every <<reference, monitor>> a GetOrCreateMonitor call returned
    \* ---- Event loop: several Run calls, callbacks calling the loop (eventloop.go) ----
    loopRunning,  \* EventLoop.running
    loopStopped,  \* EventLoop.stopped: the channel the field holds (channels are numbered as made)
    closedChans,  \* the channels that have been closed
    loopMu,       \* EventLoop.mu: the goroutine holding it, or NoThread
    runPc,        \* per goroutine calling Run: where it is, the channel it last knew, the callback it runs
    queuedTasks,  \* len(EventLoop.tasks)
    dueTimers,    \* the timers in EventLoop.timers whose deadline has passed
    \* ---- Heap byte accounting (heap.go, object.go) ----
    heapOf,       \* Heap.objects: heap id -> the Go object stored under it
    byteTotal,    \* Heap.totalBytes
    lastID,       \* Heap.nextID
    fieldKeys,    \* per Go object: the keys of its Fields map
    slotKeys,     \* per Go object: the keys of its FieldSlots map
    created,      \* the Go objects NewObject has made, with their class
    \* ---- Scheduler and fibers (scheduler.go, fiber.go) ----
    fiberState,   \* Fiber.State of every fiber, NotSpawned before Spawn
    taskPc,       \* per fiber: where the goroutine Spawn started is
    sleepCalls,   \* per fiber: the Scheduler.Sleep calls on it in progress, by caller
    fiberErr,     \* per fiber: whether Fiber.err is set
    waitAll,      \* the WaitAll call: not made, polling, returned
    \* ---- Exception matching (runtime/exception.go) ----
    query,        \* the arguments of a call of matchesException or FindExceptionHandler
    answer        \* what the call returned, once it has been made

monVars == <<owner, entryCount, waitSet, condQ, mpc, savedCount, lastOp, mres,
             held, notified, nest>>

interpVars == <<prog, stack, nextId, pendingRunnables, elRunning, bridge, runState, runErr,
               lastBridge, lastThrow>>

heapVars == <<objects, nextID, totalBytes, freeCount, gcRuns, gcThreshold, gcEnabled,
             fields, heapState, lastGC>>

\* what the actions of one subsystem leave alone
loopVars == <<clock, tasks, timers, running, stopped, lpc, now, wake, hasTimers,
             taskCount, timerCount, submitted, scheduled, tick>>

runForVars == <<rfCaller, rfGo, rfDeadline>>

\* what the actions of one subsystem leave alone
callVars == <<query, answer>>

allocVars == <<allocs, returned>>

slotVars == <<opstack, locals, wrote>>

lockVars == <<gpc, classMutex, monitorMutex, elMu, classCache, monitorMap, nativeMethods, timerPushes, raceFatal>>

registryVars == <<regPc, monitors, allocated, regMutex, regOwner, regCount, enteredWith, handedOut>>

reentryVars == <<loopRunning, loopStopped, closedChans, loopMu, runPc, queuedTasks, dueTimers>>

sizeVars == <<heapOf, byteTotal, lastID, fieldKeys, slotKeys, created>>

fiberVars == <<fiberState, taskPc, sleepCalls, fiberErr, waitAll>>

notMonitorVars == <<interpVars, heapVars, loopVars, runForVars, callVars, allocVars, slotVars, lockVars, registryVars, reentryVars, sizeVars, fiberVars>>
notInterpVars == <<monVars, heapVars, loopVars, runForVars, callVars, allocVars, slotVars, lockVars, registryVars, reentryVars, sizeVars, fiberVars>>
notHeapVars == <<monVars, interpVars, loopVars, runForVars, callVars, allocVars, slotVars, lockVars, registryVars, reentryVars, sizeVars, fiberVars>>
notLoopVars == <<monVars, interpVars, heapVars, runForVars, callVars, allocVars, slotVars, lockVars, registryVars, reentryVars, sizeVars, fiberVars>>
notRunForVars == <<monVars, interpVars, heapVars, callVars, allocVars, slotVars, lockVars, registryVars, reentryVars, sizeVars, fiberVars>>
notCallVars == <<monVars, interpVars, heapVars, loopVars, runForVars, allocVars, slotVars, lockVars, registryVars, reentryVars, sizeVars, fiberVars>>

\* the steps of Alloc write heapVars themselves
notAllocVars == <<monVars, interpVars, loopVars, runForVars, callVars, slotVars, lockVars, registryVars, reentryVars, sizeVars, fiberVars>>

notSlotVars == <<monVars, interpVars, heapVars, loopVars, runForVars, callVars, allocVars, lockVars, registryVars, reentryVars, sizeVars, fiberVars>>

notLockVars == <<monVars, interpVars, heapVars, loopVars, runForVars, callVars, allocVars, slotVars, registryVars, reentryVars, sizeVars, fiberVars>>

notRegistryVars == <<monVars, interpVars, heapVars, loopVars, runForVars, callVars, allocVars, slotVars, lockVars, reentryVars, sizeVars, fiberVars>>

notReentryVars == <<monVars, interpVars, heapVars, loopVars, runForVars, callVars, allocVars, slotVars, lockVars, registryVars, sizeVars, fiberVars>>

notSizeVars == <<monVars, interpVars, heapVars, loopVars, runForVars, callVars, allocVars, slotVars, lockVars, registryVars, reentryVars, fiberVars>>

notFiberVars == <<monVars, interpVars, heapVars, loopVars, runForVars, callVars, allocVars, slotVars, lockVars, registryVars, reentryVars, sizeVars>>

vars == <<monVars, interpVars, heapVars, loopVars, runForVars, callVars, allocVars, slotVars, lockVars, registryVars, reentryVars, sizeVars, fiberVars>>

(* ------------------------------------------------------------------ *)
(* Monitor: runtime/jvm.go                                             *)
(* ------------------------------------------------------------------ *)

Threads == 1..NumThreads
NoThread == 0

IMSE == "IllegalMonitorStateException: not owner of monitor"

NoNest == <<NoThread, 0, 0>>

\* the thread of a standalone interpreter (NewInterpreter, NewThread): it
\* has no JVM and so no monitors
Standalone == NumThreads + 1
InterpThreads == Threads \cup {Standalone}

\* Thread.jvm != nil: the threads made by JVM.CreateThread have a JVM
HasJVM(t) == t \in Threads

\* the positions of a thread inside a Monitor method: "idle" is outside any
\* method, the others name the m.cond.Wait() line the thread is in
MonPcs == {"idle", "enter124", "wait166", "wait170"}

InCond(q, t) == \E i \in 1..Len(q) : q[i] = t

\* a thread inside cond.Wait that has been signalled and has not yet
\* re-locked the mutex
Woken(t) == mpc[t] # "idle" /\ ~InCond(condQ, t)

\* mutant: a Signal that wakes nobody
Signal_WakesNone(q) == q

\* sync.Cond.Signal: wakes the goroutine that has waited longest, if any
Signal(q) == IF q = <<>> THEN q ELSE Tail(q)

\* sync.Cond.Broadcast: wakes every waiting goroutine
Broadcast(q) == <<>>

\* mutant: a thread takes the monitor whoever owns it
CanAcquire_Barging(t) == TRUE

\* the test of Enter (lines 116 and 123) and of Wait's re-acquire loop (169)
CanAcquire(t) == owner = NoThread \/ owner = t

\* mutant: the ownership test is left out
IsOwner_Unchecked(t) == TRUE

\* the ownership test of Exit, Wait, Notify and NotifyAll
IsOwner(t) == owner = t

\* waitSet without its first entry equal to t (Wait, lines 176-181)
RECURSIVE RemoveFirst(_, _)
RemoveFirst(s, t) ==
    IF s = <<>> THEN <<>>
    ELSE IF Head(s) = t THEN Tail(s)
    ELSE <<Head(s)>> \o RemoveFirst(Tail(s), t)

\* the ghost of the sequence "n Enters on a free monitor, then k Exits"
NestAfterEnter(t) ==
    IF owner = NoThread THEN <<t, 1, 0>>
    ELSE IF nest[1] = t /\ nest[3] = 0 THEN <<t, nest[2] + 1, 0>>
    ELSE NoNest

NestAfterExit(t) ==
    IF nest[1] = t /\ nest[3] < nest[2] THEN <<t, nest[2], nest[3] + 1>>
    ELSE NoNest

MonInit ==
    /\ owner = NoThread
    /\ entryCount = 0
    /\ waitSet = <<>>
    /\ condQ = <<>>
    /\ mpc = [t \in Threads |-> "idle"]
    /\ savedCount = [t \in Threads |-> 0]
    /\ mres = "none"
    /\ lastOp = <<"none", NoThread>>
    /\ held = [t \in Threads |-> 0]
    /\ notified = [t \in Threads |-> FALSE]
    /\ nest = NoNest

\* Monitor.Enter up to its return or its first m.cond.Wait()
EnterBody(t) ==
    /\ IF CanAcquire(t)
       THEN /\ owner' = t
            /\ entryCount' = entryCount + 1
            /\ held' = [held EXCEPT ![t] = @ + 1]
            /\ mres' = "ok"
            /\ nest' = NestAfterEnter(t)
            /\ UNCHANGED <<condQ, mpc>>
       ELSE /\ mpc' = [mpc EXCEPT ![t] = "enter124"]
            /\ condQ' = Append(condQ, t)
            /\ mres' = "none"
            /\ nest' = NoNest
            /\ UNCHANGED <<owner, entryCount, held>>
    /\ UNCHANGED <<waitSet, savedCount, notified>>

\* mutant: Exit decrements but never clears the owner
ExitBody_KeepsOwner(t) ==
    /\ IF ~IsOwner(t)
       THEN /\ mres' = IMSE
            /\ nest' = NoNest
            /\ UNCHANGED <<owner, entryCount, condQ, held>>
       ELSE /\ entryCount' = entryCount - 1
            /\ UNCHANGED <<owner, condQ>>
            /\ held' = [held EXCEPT ![t] = @ - 1]
            /\ mres' = "ok"
            /\ nest' = NestAfterExit(t)
    /\ UNCHANGED <<waitSet, mpc, savedCount, notified>>

\* mutant: Exit releases the monitor at once, whatever the entry count
ExitBody_NotReentrant(t) ==
    /\ IF ~IsOwner(t)
       THEN /\ mres' = IMSE
            /\ nest' = NoNest
            /\ UNCHANGED <<owner, entryCount, condQ, held>>
       ELSE /\ entryCount' = 0
            /\ owner' = NoThread
            /\ condQ' = Signal(condQ)
            /\ held' = [held EXCEPT ![t] = @ - 1]
            /\ mres' = "ok"
            /\ nest' = NestAfterExit(t)
    /\ UNCHANGED <<waitSet, mpc, savedCount, notified>>

\* Monitor.Exit
ExitBody(t) ==
    /\ IF ~IsOwner(t)
       THEN /\ mres' = IMSE
            /\ nest' = NoNest
            /\ UNCHANGED <<owner, entryCount, condQ, held>>
       ELSE /\ entryCount' = entryCount - 1
            /\ IF entryCount - 1 = 0
               THEN owner' = NoThread /\ condQ' = Signal(condQ)
               ELSE UNCHANGED <<owner, condQ>>
            /\ held' = [held EXCEPT ![t] = @ - 1]
            /\ mres' = "ok"
            /\ nest' = NestAfterExit(t)
    /\ UNCHANGED <<waitSet, mpc, savedCount, notified>>

\* a direct call of Monitor.Enter(thread)
Enter(t) ==
    /\ UNCHANGED notMonitorVars
    /\ mpc[t] = "idle"
    /\ entryCount < MaxEntry
    /\ lastOp' = <<"Enter", t>>
    /\ EnterBody(t)

\* a thread woken inside Enter's loop (lines 123-128) re-locks the mutex
EnterResume(t) ==
    /\ UNCHANGED notMonitorVars
    /\ mpc[t] = "enter124"
    /\ Woken(t)
    /\ lastOp' = <<"EnterResume", t>>
    /\ IF CanAcquire(t)
       THEN /\ owner' = t
            /\ entryCount' = entryCount + 1
            /\ held' = [held EXCEPT ![t] = @ + 1]
            /\ mres' = "ok"
            /\ mpc' = [mpc EXCEPT ![t] = "idle"]
            /\ UNCHANGED condQ
       ELSE /\ condQ' = Append(condQ, t)
            /\ mres' = "none"
            /\ UNCHANGED <<owner, entryCount, held, mpc>>
    /\ nest' = NoNest
    /\ UNCHANGED <<waitSet, savedCount, notified>>

\* a direct call of Monitor.Exit(thread)
Exit(t) ==
    /\ UNCHANGED notMonitorVars
    /\ mpc[t] = "idle"
    /\ lastOp' = <<"Exit", t>>
    /\ ExitBody(t)

\* Monitor.Wait up to its error return or its first m.cond.Wait() (line 166)
Wait(t) ==
    /\ UNCHANGED notMonitorVars
    /\ mpc[t] = "idle"
    /\ lastOp' = <<"Wait", t>>
    /\ nest' = NoNest
    /\ IF ~IsOwner(t)
       THEN /\ mres' = IMSE
            /\ UNCHANGED <<owner, entryCount, waitSet, condQ, mpc, savedCount, notified>>
       ELSE /\ savedCount' = [savedCount EXCEPT ![t] = entryCount]
            /\ entryCount' = 0
            /\ owner' = NoThread
            /\ waitSet' = Append(waitSet, t)
            /\ condQ' = Append(Signal(condQ), t)
            /\ mpc' = [mpc EXCEPT ![t] = "wait166"]
            /\ mres' = "none"
            /\ notified' = [notified EXCEPT ![t] = FALSE]
    /\ UNCHANGED held

\* mutant: Wait re-claims the monitor with an entry count of 1
WaitResume_ForgetsCount(t) ==
    /\ UNCHANGED notMonitorVars
    /\ mpc[t] \in {"wait166", "wait170"}
    /\ Woken(t)
    /\ lastOp' = <<"WaitResume", t>>
    /\ nest' = NoNest
    /\ IF CanAcquire(t)
       THEN /\ owner' = t
            /\ entryCount' = 1
            /\ waitSet' = RemoveFirst(waitSet, t)
            /\ mpc' = [mpc EXCEPT ![t] = "idle"]
            /\ mres' = "ok"
            /\ savedCount' = [savedCount EXCEPT ![t] = 0]
            /\ UNCHANGED condQ
       ELSE /\ mpc' = [mpc EXCEPT ![t] = "wait170"]
            /\ condQ' = Append(condQ, t)
            /\ mres' = "none"
            /\ UNCHANGED <<owner, entryCount, waitSet, savedCount>>
    /\ UNCHANGED <<held, notified>>

\* a thread woken inside Wait (line 166 or 170) re-locks the mutex and runs
\* the re-acquire loop; it returns from Wait or waits again at line 170
WaitResume(t) ==
    /\ UNCHANGED notMonitorVars
    /\ mpc[t] \in {"wait166", "wait170"}
    /\ Woken(t)
    /\ lastOp' = <<"WaitResume", t>>
    /\ nest' = NoNest
    /\ IF CanAcquire(t)
       THEN /\ owner' = t
            /\ entryCount' = savedCount[t]
            /\ waitSet' = RemoveFirst(waitSet, t)
            /\ mpc' = [mpc EXCEPT ![t] = "idle"]
            /\ mres' = "ok"
            /\ savedCount' = [savedCount EXCEPT ![t] = 0]
            /\ UNCHANGED condQ
       ELSE /\ mpc' = [mpc EXCEPT ![t] = "wait170"]
            /\ condQ' = Append(condQ, t)
            /\ mres' = "none"
            /\ UNCHANGED <<owner, entryCount, waitSet, savedCount>>
    /\ UNCHANGED <<held, notified>>

\* the ghost of Notify/NotifyAll calls: every other thread inside Wait has
\* now seen a notification
NotedBy(t) ==
    [u \in Threads |-> IF u # t /\ mpc[u] \in {"wait166", "wait170"} THEN TRUE ELSE notified[u]]

\* Monitor.Notify
Notify(t) ==
    /\ UNCHANGED notMonitorVars
    /\ mpc[t] = "idle"
    /\ lastOp' = <<"Notify", t>>
    /\ nest' = NoNest
    /\ notified' = NotedBy(t)
    /\ IF ~IsOwner(t)
       THEN /\ mres' = IMSE
            /\ UNCHANGED condQ
       ELSE /\ condQ' = IF Len(waitSet) > 0 THEN Signal(condQ) ELSE condQ
            /\ mres' = "ok"
    /\ UNCHANGED <<owner, entryCount, waitSet, mpc, savedCount, held>>

\* Monitor.NotifyAll
NotifyAll(t) ==
    /\ UNCHANGED notMonitorVars
    /\ mpc[t] = "idle"
    /\ lastOp' = <<"NotifyAll", t>>
    /\ nest' = NoNest
    /\ notified' = NotedBy(t)
    /\ IF ~IsOwner(t)
       THEN /\ mres' = IMSE
            /\ UNCHANGED condQ
       ELSE /\ condQ' = Broadcast(condQ)
            /\ mres' = "ok"
    /\ UNCHANGED <<owner, entryCount, waitSet, mpc, savedCount, held>>

\* the monitorenter instruction on a non-null reference: with a JVM it
\* calls Enter on the reference's monitor, without one it does nothing
MonitorEnterInstr(t) ==
    /\ UNCHANGED notMonitorVars
    /\ lastOp' = <<"monitorenter", t>>
    /\ IF HasJVM(t)
       THEN mpc[t] = "idle" /\ entryCount < MaxEntry /\ EnterBody(t)
       ELSE /\ mres' = "ok"
            /\ nest' = NoNest
            /\ UNCHANGED <<owner, entryCount, waitSet, condQ, mpc, savedCount,
                           held, notified>>

\* the monitorexit instruction on a non-null reference: with a JVM it calls
\* Exit and ends the run with Exit's error, without one it does nothing
MonitorExitInstr(t) ==
    /\ UNCHANGED notMonitorVars
    /\ lastOp' = <<"monitorexit", t>>
    /\ IF HasJVM(t)
       THEN mpc[t] = "idle" /\ ExitBody(t)
       ELSE /\ mres' = "ok"
            /\ nest' = NoNest
            /\ UNCHANGED <<owner, entryCount, waitSet, condQ, mpc, savedCount,
                           held, notified>>

NextMonitor ==
    \/ \E t \in Threads : Enter(t)
    \/ \E t \in Threads : EnterResume(t)
    \/ \E t \in Threads : Exit(t)
    \/ \E t \in Threads : Wait(t)
    \/ \E t \in Threads : WaitResume(t)
    \/ \E t \in Threads : Notify(t)
    \/ \E t \in Threads : NotifyAll(t)
    \/ \E t \in InterpThreads : MonitorEnterInstr(t)
    \/ \E t \in InterpThreads : MonitorExitInstr(t)

(* ------------------------------------------------------------------ *)
(* Interpreter: one thread executing the bytecode of one class         *)
(* ------------------------------------------------------------------ *)

\* opcodes used by the modelled programs (interpreter/opcodes.go)
ACONST_NULL == 1
ICONST_0 == 3
ICONST_1 == 4
LCONST_0 == 9
LCONST_1 == 10
ILOAD_0 == 26
ILOAD_1 == 27
LLOAD_0 == 30
ALOAD_0 == 42
ALOAD_1 == 43
POP == 87
DUP2 == 92
IDIV == 108
LDIV == 109
IREM == 112
LREM == 113
IF_ACMPEQ == 165
IRETURN == 172
LRETURN == 173
ARETURN == 176
RETURN == 177
INVOKEVIRTUAL == 182
INVOKESPECIAL == 183
INVOKESTATIC == 184
OP_NEW == 187
ARRAYLENGTH == 190
ATHROW == 191

\* a byte that opcodes.go's init gives no category: opcodeCategories holds
\* CategoryUnknown for it
NoCategoryOpcode == 11

\* the bytes the modelled programs hold as opcodes
Opcodes == {ACONST_NULL, ICONST_0, ICONST_1, LCONST_0, LCONST_1, ILOAD_0, ILOAD_1, LLOAD_0,
            ALOAD_0, ALOAD_1, POP, DUP2, IDIV, LDIV, IREM, LREM, IF_ACMPEQ, IRETURN,
            LRETURN, ARETURN, RETURN, INVOKEVIRTUAL, INVOKESPECIAL, INVOKESTATIC, OP_NEW,
            ARRAYLENGTH, ATHROW, NoCategoryOpcode}

\* opcodes.go init and Category, for these bytes
Category(opcode) ==
    IF opcode \in {ACONST_NULL, ICONST_0, ICONST_1, LCONST_0, LCONST_1} THEN "Const"
    ELSE IF opcode \in {ILOAD_0, ILOAD_1, LLOAD_0, ALOAD_0, ALOAD_1} THEN "Load"
    ELSE IF opcode \in {POP, DUP2, IDIV, LDIV, IREM, LREM} THEN "Math"
    ELSE IF opcode \in {IF_ACMPEQ, IRETURN, LRETURN, ARETURN, RETURN} THEN "Control"
    ELSE IF opcode \in {ARRAYLENGTH} THEN "Array"
    ELSE IF opcode \in {OP_NEW, ATHROW} THEN "Object"
    ELSE IF opcode \in {INVOKEVIRTUAL, INVOKESPECIAL, INVOKESTATIC} THEN "Invoke"
    ELSE "Unknown"

\* the opcode has a case in the switch of its category's handler; dup2 has
\* none in executeMathInstruction, if_acmpeq none in executeControlInstruction
HasCase(opcode) == Category(opcode) # "Unknown" /\ opcode \notin {DUP2, IF_ACMPEQ}

\* how many Runnables a program hands to EventLoop.submitRunnable
MaxRunnables == 2

\* errors are the pieces of the formatted message; NoErr is Go's nil error
NoErr == <<>>
UncaughtError(exClassName) == <<"uncaught exception: ", exClassName>>
NotObjectError == <<"InvokeMethod: expected *runtime.Object, got ", "string">>
NullRunnableError == <<"NullPointerException: runnable is null">>
ThrowNullError == <<"NullPointerException: cannot throw null">>
NullArrayError == <<"NullPointerException: array is null">>
NotArrayPanic == <<"panic: interface conversion: interface {} is not *runtime.Array">>

\* %X of one hexadecimal digit
HexDigit(d) ==
    <<"0", "1", "2", "3", "4", "5", "6", "7", "8", "9", "A", "B", "C", "D", "E", "F">>[d + 1]

\* fmt.Errorf("unimplemented opcode: 0x%02X at PC=%d", opcode, pc)
UnimplementedError(opcode, pc) ==
    <<"unimplemented opcode: 0x", HexDigit(opcode \div 16), HexDigit(opcode % 16),
      " at PC=", ToString(pc)>>

\* operand-stack values: an int, an object of a loaded class, a Go string
IntVal(n) == [kind |-> "int", n |-> n, str |-> <<>>]
ObjVal(className) == [kind |-> "obj", n |-> 0, str |-> <<className>>]
StrVal(s) == [kind |-> "str", n |-> 0, str |-> s]
NullVal == [kind |-> "null", n |-> 0, str |-> <<>>]

\* the two cells of an operand-stack entry or a local: PopRef and GetRef
\* read the reference cell, PopSlot, PopInt and PopLong the primitive one
RefOf(v) == IF v.kind \in {"obj", "str"} THEN v ELSE NullVal
SlotOf(v) == IF v.kind = "int" THEN v.n ELSE 0

\* a local variable nothing was stored into
EmptyLocal == [slot |-> 0, ref |-> NullVal]

\* Go's run-time panic for an index outside a slice
IndexPanic(index, length) ==
    <<"panic: runtime error: index out of range [", ToString(index), "] with length ",
      ToString(length)>>

\* fmt.Sprintf("Object<%s>", className), kept as its three pieces
Placeholder(className) == <<"Object<", className, ">">>

\* helpers.go extractClassName: the text between "Object<" and ">"
extractClassName(s) ==
    IF Len(s) = 3 /\ s[1] = "Object<" /\ s[3] = ">" THEN s[2] ELSE s[1]

\* ---- method descriptors (helpers.go parseArgTypes, countArgs) ----

\* parameter types, character by character: int, long, an object type,
\* arrays of one and of two dimensions of int and of an object type
ParamTypes ==
    { <<"I">>, <<"J">>, <<"L", "a", ";">>, <<"[", "I">>, <<"[", "L", "a", ";">>,
      <<"[", "[", "I">>, <<"[", "[", "L", "a", ";">> }

RECURSIVE Concat(_)
Concat(seqs) == IF seqs = <<>> THEN <<>> ELSE Head(seqs) \o Concat(Tail(seqs))

\* the descriptor "(" params ")" ret, and the one of a void method
DescriptorOf(params, ret) == <<"(">> \o Concat(params) \o <<")">> \o ret
Descriptor(params) == DescriptorOf(params, <<"V">>)

\* an object type whose class name is kept as one piece
ObjectType(className) == <<"L", className, ";">>

\* "for descriptor[i] != ';' { i++ }": the index of the next ';'
\* (descriptor[i] of the Go string is element i + 1 here)
RECURSIVE SkipToSemicolon(_, _)
SkipToSemicolon(descriptor, i) ==
    IF descriptor[i + 1] = ";" THEN i ELSE SkipToSemicolon(descriptor, i + 1)

\* the index after the '[' case: i++, the class name skipped when an 'L'
\* follows, i++
AfterArray(descriptor, i) ==
    IF descriptor[i + 2] = "L"
    THEN SkipToSemicolon(descriptor, i + 1) + 1
    ELSE i + 2

IsBaseType(c) == c \in {"B", "C", "F", "I", "S", "Z", "D", "J"}

\* parseArgTypes: the loop from index i on
RECURSIVE ParseFrom(_, _)
ParseFrom(descriptor, i) ==
    IF ~(i < Len(descriptor) /\ descriptor[i + 1] # ")") THEN <<>>
    ELSE IF IsBaseType(descriptor[i + 1])
         THEN <<descriptor[i + 1]>> \o ParseFrom(descriptor, i + 1)
    ELSE IF descriptor[i + 1] = "L"
         THEN <<"L">> \o ParseFrom(descriptor, SkipToSemicolon(descriptor, i) + 1)
    ELSE IF descriptor[i + 1] = "["
         THEN <<"[">> \o ParseFrom(descriptor, AfterArray(descriptor, i))
    ELSE ParseFrom(descriptor, i + 1)

parseArgTypes(descriptor) == ParseFrom(descriptor, 1)

\* countArgs: the loop from index i on
RECURSIVE CountFrom(_, _)
CountFrom(descriptor, i) ==
    IF ~(i < Len(descriptor) /\ descriptor[i + 1] # ")") THEN 0
    ELSE IF IsBaseType(descriptor[i + 1])
         THEN 1 + CountFrom(descriptor, i + 1)
    ELSE IF descriptor[i + 1] = "L"
         THEN 1 + CountFrom(descriptor, SkipToSemicolon(descriptor, i) + 1)
    ELSE IF descriptor[i + 1] = "["
         THEN 1 + CountFrom(descriptor, AfterArray(descriptor, i))
    ELSE CountFrom(descriptor, i + 1)

countArgs(descriptor) == CountFrom(descriptor, 1)

\* the class under execution and its constant pool
MainClass == "Main"
RTE == "java/lang/RuntimeException"
ISE == "java/lang/IllegalStateException"
ArithmeticException == "java/lang/ArithmeticException"
NullPointerException == "java/lang/NullPointerException"

\* a class of the program that no class file can be found for
GridClass == "Grid"

CpClass(name) == [tag |-> "Class", cls |-> name, name |-> "", desc |-> <<>>]
CpMethod(cls, name, desc) == [tag |-> "Methodref", cls |-> cls, name |-> name, desc |-> desc]

CP == <<
    CpClass(RTE),
    CpClass(ISE),
    CpClass(MainClass),
    CpMethod(MainClass, "helper", Descriptor(<<>>)),
    CpMethod(MainClass, "run", Descriptor(<<>>)),
    CpMethod(MainClass, "inner", Descriptor(<<>>)),
    CpMethod("EventLoop", "submitRunnable", Descriptor(<<ObjectType("java/lang/Runnable")>>)),
    CpMethod("EventLoop", "run", Descriptor(<<>>)),
    CpClass(GridClass),
    CpMethod(MainClass, "helper", DescriptorOf(<<<<"I">>>>, <<"I">>)),
    CpMethod(MainClass, "helper", DescriptorOf(<<<<"I">>, ObjectType(MainClass)>>,
                                               ObjectType(MainClass))),
    CpMethod(MainClass, "helper", DescriptorOf(<<<<"J">>>>, <<"J">>)),
    CpMethod(MainClass, "helper", Descriptor(<<<<"[", "[", "I">>>>)),
    CpMethod(MainClass, "helper", Descriptor(<<<<"I">>, <<"[", "[", "I">>>>)),
    CpMethod(MainClass, "run", DescriptorOf(<<<<"I">>>>, <<"I">>)),
    CpMethod(MainClass, "inner", Descriptor(<<ObjectType(MainClass)>>)),
    CpMethod(RTE, "<init>", Descriptor(<<ObjectType("java/lang/String")>>)),
    CpMethod(GridClass, "<init>", Descriptor(<<<<"[", "[", "I">>>>)),
    CpMethod(MainClass, "missing", Descriptor(<<>>)),
    CpMethod(MainClass, "<init>", Descriptor(<<>>)) >>

\* the constant-pool index of an entry
CpIndex(entry) == CHOOSE i \in 1..Len(CP) : CP[i] = entry

Methods == {"main", "helper", "run", "inner"}

\* ConstantPool.GetClassName: "" unless the entry is a Class
GetClassName(index) ==
    IF index \in 1..Len(CP) /\ CP[index].tag = "Class" THEN CP[index].cls ELSE ""

\* exception.go isRuntimeException / isException: fixed name tables
isRuntimeException(className) ==
    className \in { RTE, "java/lang/NullPointerException",
                    "java/lang/ArrayIndexOutOfBoundsException",
                    ArithmeticException, "java/lang/IllegalArgumentException",
                    ISE, "java/lang/IndexOutOfBoundsException",
                    "java/lang/ClassCastException", "java/lang/NumberFormatException" }

isException(className) ==
    \/ isRuntimeException(className)
    \/ className \in { "java/lang/Exception", "java/io/IOException",
                       "java/io/FileNotFoundException" }

\* exception.go matchesException
matchesException(thrownClass, catchClass) ==
    IF thrownClass = catchClass THEN TRUE
    ELSE IF catchClass = "java/lang/Exception" THEN isException(thrownClass)
    ELSE IF catchClass = "java/lang/Throwable" THEN TRUE
    ELSE IF catchClass = RTE THEN isRuntimeException(thrownClass)
    ELSE FALSE

\* a changed range check: the entry also covers its end pc
EntryCatches_EndInclusive(entry, pc, exceptionClass) ==
    /\ pc >= entry.startPC
    /\ pc <= entry.endPC
    /\ \/ entry.catchType = 0
       \/ matchesException(exceptionClass, GetClassName(entry.catchType))

\* whether one exception-table entry covers pc and catches the class
EntryCatches(entry, pc, exceptionClass) ==
    /\ pc >= entry.startPC
    /\ pc < entry.endPC
    /\ \/ entry.catchType = 0
       \/ matchesException(exceptionClass, GetClassName(entry.catchType))

\* exception.go FindExceptionHandler: the first entry, in table order,
\* that catches; -1 when there is none
RECURSIVE FindExceptionHandler(_, _, _)
FindExceptionHandler(table, pc, exceptionClass) ==
    IF table = <<>> THEN -1
    ELSE IF EntryCatches(Head(table), pc, exceptionClass) THEN Head(table).handlerPC
    ELSE FindExceptionHandler(Tail(table), pc, exceptionClass)

\* Thread.PushFrame / PopFrame / CurrentFrame / ContainsFrame on a stack value
PushFrame(stk, frame) == Append(stk, frame)
PopFrame(stk) == IF stk = <<>> THEN stk ELSE SubSeq(stk, 1, Len(stk) - 1)
CurrentFrame(stk) == stk[Len(stk)]
ContainsFrame(stk, id) == \E k \in 1..Len(stk) : stk[k].id = id

\* runtime.NewFrame: pc 0, empty operand stack, max_locals empty locals,
\* a fresh identity
NewFrame(id, m) ==
    [id |-> id, m |-> m, pc |-> 0, ostack |-> <<>>,
     locals |-> [i \in 1..prog[m].maxLocals |-> EmptyLocal]]

\* NewOperandStack: the slices hold max_stack entries, and one when
\* max_stack is 0
Capacity(m) == IF prog[m].maxStack < 1 THEN 1 ELSE prog[m].maxStack

\* mutant: the handler frame keeps its operands under the exception
EnterHandler_KeepsOperands(frame, handlerPC, exRef) ==
    [frame EXCEPT !.pc = handlerPC, !.ostack = Append(@, exRef)]

\* helpers.go handleException lines 137-140: jump to the handler with
\* an operand stack holding the exception reference only
EnterHandler(frame, handlerPC, exRef) ==
    [frame EXCEPT !.pc = handlerPC, !.ostack = <<exRef>>]

\* helpers.go handleException: the resulting frame stack and error
RECURSIVE HandleException(_, _, _)
HandleException(stk, exRef, exClassName) ==
    IF stk = <<>> THEN [stack |-> stk, err |-> UncaughtError(exClassName)]
    ELSE LET frame == CurrentFrame(stk)
             handlerPC == FindExceptionHandler(prog[frame.m].table, frame.pc - 1,
                                               exClassName)
         IN  IF handlerPC >= 0
             THEN [stack |-> [stk EXCEPT ![Len(stk)] =
                                  EnterHandler(frame, handlerPC, exRef)],
                   err |-> NoErr]
             ELSE HandleException(PopFrame(stk), exRef, exClassName)

\* ---- the programs: byte code and exception tables ----

Throw(exClass) == <<ICONST_1, OP_NEW, 0, CpIndex(CpClass(exClass)), ATHROW>>
Div == <<ICONST_1, ICONST_0, IDIV>>
DivOk == <<ICONST_1, ICONST_1, IDIV, POP>>
Rem == <<ICONST_1, ICONST_0, IREM>>
RemOk == <<ICONST_1, ICONST_1, IREM, POP>>
LDiv == <<LCONST_1, LCONST_0, LDIV>>
LRem == <<LCONST_1, LCONST_0, LREM>>
\* arraylength on null
NullLen == <<ACONST_NULL, ARRAYLENGTH, POP>>
\* an opcode with a category and no case, and one with no category,
\* each followed by further instructions
Dup2 == <<ICONST_0, DUP2, POP>>
NoCategory == <<ICONST_0, NoCategoryOpcode, POP>>
\* if_acmpeq on two nulls; its two branch bytes, 0x57 0x57, are the
\* offset 22359 and, read as opcodes, two pops
AcmpSkip == <<ACONST_NULL, ACONST_NULL, IF_ACMPEQ, 87, 87>>
Call(cls, name, desc) == <<INVOKESTATIC, 0, CpIndex(CpMethod(cls, name, desc))>>
CallOwn(name) == Call(MainClass, name, Descriptor(<<>>))
EventLoopRun == Call("EventLoop", "run", Descriptor(<<>>))
SubmitRunnable ==
    Call("EventLoop", "submitRunnable", Descriptor(<<ObjectType("java/lang/Runnable")>>))
SubmitNew(className) == <<OP_NEW, 0, CpIndex(CpClass(className))>> \o SubmitRunnable

RECURSIVE Repeat(_, _)
Repeat(s, k) == IF k = 0 THEN <<>> ELSE s \o Repeat(s, k - 1)

\* submit k Runnables of the class itself, then run the event loop
Bridge(k) == Repeat(SubmitNew(MainClass), k) \o EventLoopRun

\* submit a reference that is no object of a loaded class
BridgeBad == SubmitNew(RTE) \o EventLoopRun

ExceptionEntry(startPC, endPC, handlerPC, catchType) ==
    [startPC |-> startPC, endPC |-> endPC, handlerPC |-> handlerPC,
     catchType |-> catchType]

\* a method: its core, a return, and the handlers (each pops the
\* exception and returns) that its exception table names; the Code
\* attribute declares max_stack 2 and max_locals 1
Method(core, catch) ==
    LET n == Len(core)
        h == <<POP, RETURN>>
    IN  [desc |-> Descriptor(<<>>), maxStack |-> 2, maxLocals |-> 1,
         code |-> core \o <<RETURN>> \o
                  (IF catch = "none" THEN <<>>
                   ELSE IF catch = "ise_then_any" THEN h \o h ELSE h),
         table |->
            IF catch = "none" THEN <<>>
            ELSE IF catch = "any" THEN <<ExceptionEntry(0, n, n + 1, 0)>>
            ELSE IF catch = "rte"
                 THEN <<ExceptionEntry(0, n, n + 1, CpIndex(CpClass(RTE)))>>
            ELSE IF catch = "ise"
                 THEN <<ExceptionEntry(0, n, n + 1, CpIndex(CpClass(ISE)))>>
            ELSE IF catch = "narrow"
                 THEN <<ExceptionEntry(0, IF n > 0 THEN 1 ELSE 0, n + 1, 0)>>
            ELSE <<ExceptionEntry(0, n, n + 1, CpIndex(CpClass(ISE))),
                   ExceptionEntry(0, n, n + 3, 0)>>]

\* a method whose code ends without a return instruction
FallOff ==
    [desc |-> Descriptor(<<>>), maxStack |-> 2, maxLocals |-> 1,
     code |-> <<ICONST_0, POP>>, table |-> <<>>]

MainBodies ==
    { Method(core, catch) :
        core \in {Bridge(k) : k \in 1..MaxRunnables}
                 \cup {BridgeBad, CallOwn("helper"), CallOwn("run")},
        catch \in {"none", "any"} }

HelperBodies ==
    { Method(core, catch) :
        core \in {Bridge(1), CallOwn("run")}, catch \in {"none", "rte"} }

RunBodies ==
    { Method(core, catch) :
        core \in {<<>>, Throw(RTE), Throw(ISE), Div, CallOwn("inner"), EventLoopRun},
        catch \in {"none", "any", "ise", "narrow", "ise_then_any"} }
    \cup {FallOff}

InnerBodies ==
    { Method(core, catch) :
        core \in {<<>>, Throw(RTE), Throw(ISE), Div, DivOk}, catch \in {"none", "ise"} }

\* programs whose instructions fail: main calls run, which fails itself
\* or calls inner, which fails
FaultCores == {Div, DivOk, Rem, RemOk, LDiv, LRem, NullLen, Dup2, NoCategory, AcmpSkip}

FaultMainBodies == { Method(CallOwn("run"), catch) : catch \in {"none", "any"} }

FaultRunBodies ==
    { Method(core, catch) :
        core \in FaultCores \cup {CallOwn("inner")},
        catch \in {"none", "any", "ise", "narrow"} }

FaultInnerBodies ==
    { Method(core, catch) : core \in FaultCores, catch \in {"none", "ise", "any"} }
    \cup {FallOff}

NoBridge == [target |-> 0, entry |-> 0]
NoBridgeReturn == [count |-> 0, entry |-> 0, exit |-> 0, err |-> NoErr]
NoThrow == [count |-> 0, cls |-> "", exRef |-> NullVal, before |-> <<>>,
            after |-> <<>>, err |-> NoErr]

\* the interpreter before Execute: nothing loaded, nothing on the stack
InterpIdle ==
    /\ prog = [m \in Methods |-> FallOff]
    /\ stack = <<>>
    /\ nextId = 1
    /\ pendingRunnables = <<>>
    /\ elRunning = FALSE
    /\ bridge = NoBridge
    /\ runState = "done"
    /\ runErr = NoErr
    /\ lastBridge = NoBridgeReturn
    /\ lastThrow = NoThrow

\* Interpreter.Execute(class, "main") up to its call of run()
InterpInit ==
    /\ \E mb \in MainBodies, hb \in HelperBodies, rb \in RunBodies, ib \in InnerBodies :
          prog = [m \in Methods |->
                    IF m = "main" THEN mb ELSE IF m = "helper" THEN hb
                    ELSE IF m = "run" THEN rb ELSE ib]
    /\ stack = <<NewFrame(1, "main")>>
    /\ nextId = 2
    /\ pendingRunnables = <<>>
    /\ elRunning = FALSE
    /\ bridge = NoBridge
    /\ runState = "running"
    /\ runErr = NoErr
    /\ lastBridge = NoBridgeReturn
    /\ lastThrow = NoThrow

\* Interpreter.Execute(class, "main") for one of the failing programs
InterpInitFaults ==
    /\ \E mb \in FaultMainBodies, rb \in FaultRunBodies, ib \in FaultInnerBodies :
          prog = [m \in Methods |->
                    IF m = "main" THEN mb ELSE IF m = "helper" THEN FallOff
                    ELSE IF m = "run" THEN rb ELSE ib]
    /\ stack = <<NewFrame(1, "main")>>
    /\ nextId = 2
    /\ pendingRunnables = <<>>
    /\ elRunning = FALSE
    /\ bridge = NoBridge
    /\ runState = "running"
    /\ runErr = NoErr
    /\ lastBridge = NoBridgeReturn
    /\ lastThrow = NoThrow

\* ---- the instruction loop: Interpreter.run and runUntilFrameCompletes ----

InBridge == bridge # NoBridge

\* a loop that never notices the target frame has gone
TargetGone_Never == FALSE

\* runUntilFrameCompletes line 191: the target frame has been popped
TargetGone ==
    /\ CurrentFrame(stack).id # bridge.target
    /\ ~ContainsFrame(stack, bridge.target)

\* the loop in control goes on to look at the current frame
LoopContinues ==
    /\ runState = "running"
    /\ stack # <<>>
    /\ IF InBridge THEN ~TargetGone ELSE ~elRunning

Code(frame) == prog[frame.m].code

\* Frame.ReadU1 has consumed the opcode
Fetched == [CurrentFrame(stack) EXCEPT !.pc = @ + 1]

\* the loop reads the opcode op at the current frame's pc
Fetch(op) ==
    /\ LoopContinues
    /\ CurrentFrame(stack).pc < Len(Code(CurrentFrame(stack)))
    /\ Code(CurrentFrame(stack))[CurrentFrame(stack).pc + 1] = op

\* Frame.ReadU2 at the fetched frame: the big-endian operand
ReadU2(frame) == Code(frame)[frame.pc + 1] * 256 + Code(frame)[frame.pc + 2]

WithTop(frame) == [stack EXCEPT ![Len(stack)] = frame]

\* the loop's treatment of executeInstruction's result: an error ends
\* run, or ends the bridge, whose native caller prints it and goes on
Complete(stk, err) ==
    /\ stack' = stk
    /\ IF err = NoErr
       THEN UNCHANGED <<bridge, runState, runErr, lastBridge>>
       ELSE IF InBridge
       THEN /\ lastBridge' = [count |-> lastBridge.count + 1, entry |-> bridge.entry,
                              exit |-> Len(stk), err |-> err]
            /\ bridge' = NoBridge
            /\ UNCHANGED <<runState, runErr>>
       ELSE /\ runState' = "error"
            /\ runErr' = err
            /\ UNCHANGED <<bridge, lastBridge>>

\* Interpreter.run leaves its loop on an empty stack and returns nil
RunExit ==
    /\ runState = "running"
    /\ ~InBridge
    /\ ~elRunning
    /\ stack = <<>>
    /\ runState' = "done"
    /\ UNCHANGED <<prog, stack, nextId, pendingRunnables, elRunning, bridge, runErr,
                   lastBridge, lastThrow>>
    /\ UNCHANGED notInterpVars

\* runUntilFrameCompletes leaves its loop (stack empty, or target frame
\* gone) and InvokeMethod returns nil to the native's callback
BridgeExit ==
    /\ runState = "running"
    /\ InBridge
    /\ stack = <<>> \/ TargetGone
    /\ lastBridge' = [count |-> lastBridge.count + 1, entry |-> bridge.entry,
                      exit |-> Len(stack), err |-> NoErr]
    /\ bridge' = NoBridge
    /\ UNCHANGED <<prog, stack, nextId, pendingRunnables, elRunning, runState, runErr, lastThrow>>
    /\ UNCHANGED notInterpVars

\* either loop: the current frame ran past its code and is popped
PopFinishedFrame ==
    /\ LoopContinues
    /\ CurrentFrame(stack).pc >= Len(Code(CurrentFrame(stack)))
    /\ stack' = PopFrame(stack)
    /\ UNCHANGED <<prog, nextId, pendingRunnables, elRunning, bridge, runState, runErr,
                   lastBridge, lastThrow>>
    /\ UNCHANGED notInterpVars

\* iconst_0, iconst_1
ExecConst ==
    /\ \E op \in {ICONST_0, ICONST_1} :
          /\ Fetch(op)
          /\ Complete(WithTop([Fetched EXCEPT !.ostack = Append(@, IntVal(op - ICONST_0))]),
                      NoErr)
    /\ UNCHANGED <<prog, nextId, pendingRunnables, elRunning, lastThrow>>
    /\ UNCHANGED notInterpVars

\* lconst_0, lconst_1: PushLong fills one slot, as PushInt does
ExecLconst ==
    /\ \E op \in {LCONST_0, LCONST_1} :
          /\ Fetch(op)
          /\ Complete(WithTop([Fetched EXCEPT !.ostack = Append(@, IntVal(op - LCONST_0))]),
                      NoErr)
    /\ UNCHANGED <<prog, nextId, pendingRunnables, elRunning, lastThrow>>
    /\ UNCHANGED notInterpVars

\* aconst_null
ExecAconstNull ==
    /\ Fetch(ACONST_NULL)
    /\ Complete(WithTop([Fetched EXCEPT !.ostack = Append(@, NullVal)]), NoErr)
    /\ UNCHANGED <<prog, nextId, pendingRunnables, elRunning, lastThrow>>
    /\ UNCHANGED notInterpVars

\* arraylength (lines 238-244): a nil reference makes the handler return
\* an error; the programs create no arrays, so any other reference fails
\* the type assertion of line 243
ExecArrayLength ==
    /\ Fetch(ARRAYLENGTH)
    /\ Fetched.ostack # <<>>
    /\ LET arrRef == Fetched.ostack[Len(Fetched.ostack)]
           popped == WithTop([Fetched EXCEPT !.ostack = SubSeq(@, 1, Len(@) - 1)])
       IN  Complete(popped, IF arrRef.kind = "null" THEN NullArrayError ELSE NotArrayPanic)
    /\ UNCHANGED <<prog, nextId, pendingRunnables, elRunning, lastThrow>>
    /\ UNCHANGED notInterpVars

\* executeInstruction's default branch: the opcode has no category
ExecUnknown ==
    /\ \E op \in Opcodes :
          /\ Category(op) = "Unknown"
          /\ Fetch(op)
          /\ Complete(WithTop(Fetched), UnimplementedError(op, Fetched.pc - 1))
    /\ UNCHANGED <<prog, nextId, pendingRunnables, elRunning, lastThrow>>
    /\ UNCHANGED notInterpVars

\* an opcode with a category and no case: its handler's default branch
\* returns (false, nil) and executeInstruction passes on the nil error only
ExecNoCase ==
    /\ \E op \in Opcodes :
          /\ Category(op) # "Unknown"
          /\ ~HasCase(op)
          /\ Fetch(op)
          /\ Complete(WithTop(Fetched), NoErr)
    /\ UNCHANGED <<prog, nextId, pendingRunnables, elRunning, lastThrow>>
    /\ UNCHANGED notInterpVars

\* pop
ExecPop ==
    /\ Fetch(POP)
    /\ Fetched.ostack # <<>>
    /\ Complete(WithTop([Fetched EXCEPT !.ostack = SubSeq(@, 1, Len(@) - 1)]), NoErr)
    /\ UNCHANGED <<prog, nextId, pendingRunnables, elRunning, lastThrow>>
    /\ UNCHANGED notInterpVars

\* return
ExecReturn ==
    /\ Fetch(RETURN)
    /\ Complete(PopFrame(WithTop(Fetched)), NoErr)
    /\ UNCHANGED <<prog, nextId, pendingRunnables, elRunning, lastThrow>>
    /\ UNCHANGED notInterpVars

\* new: an object of the class under execution, or the placeholder
\* string for a class that cannot be loaded
ExecNew ==
    /\ Fetch(OP_NEW)
    /\ LET className == GetClassName(ReadU2(Fetched))
           obj == IF className = MainClass THEN ObjVal(className)
                  ELSE StrVal(Placeholder(className))
       IN  Complete(WithTop([Fetched EXCEPT !.pc = @ + 2,
                                            !.ostack = Append(@, obj)]), NoErr)
    /\ UNCHANGED <<prog, nextId, pendingRunnables, elRunning, lastThrow>>
    /\ UNCHANGED notInterpVars

\* the record of one exception propagation
Thrown(exClassName, exRef, before, r) ==
    [count |-> lastThrow.count + 1, cls |-> exClassName, exRef |-> exRef,
     before |-> before, after |-> r.stack, err |-> r.err]

\* athrow
ExecAthrow ==
    /\ Fetch(ATHROW)
    /\ Fetched.ostack # <<>>
    /\ LET exRef == Fetched.ostack[Len(Fetched.ostack)]
           before == WithTop([Fetched EXCEPT !.ostack = SubSeq(@, 1, Len(@) - 1)])
           exClassName == IF exRef.kind = "obj" THEN exRef.str[1]
                          ELSE IF exRef.kind = "str" THEN extractClassName(exRef.str)
                          ELSE ""
           r == HandleException(before, exRef, exClassName)
       IN  IF exRef.kind = "null"
           THEN Complete(before, ThrowNullError) /\ UNCHANGED lastThrow
           ELSE /\ Complete(r.stack, r.err)
                /\ lastThrow' = Thrown(exClassName, exRef, before, r)
    /\ UNCHANGED <<prog, nextId, pendingRunnables, elRunning>>
    /\ UNCHANGED notInterpVars

\* Go's / and % on integers: the quotient is truncated toward zero and the
\* remainder has the sign of the dividend (the programs' operands are 0
\* and 1, far from the one overflow, the minimum divided by -1)
Abs(n) == IF n < 0 THEN 0 - n ELSE n
Quotient(v1, v2) ==
    IF (v1 < 0) = (v2 < 0) THEN Abs(v1) \div Abs(v2) ELSE 0 - (Abs(v1) \div Abs(v2))
Remainder(v1, v2) == v1 - v2 * Quotient(v1, v2)

\* what the instruction pushes for a divisor that is not zero
DivRemResult(op, v1, v2) ==
    IF op \in {IDIV, LDIV} THEN Quotient(v1, v2) ELSE Remainder(v1, v2)

\* a changed class: the long instructions raise another exception
DivException_IntOnly(op) == IF op \in {IDIV, IREM} THEN ArithmeticException ELSE RTE

\* the class a zero divisor raises: the first argument of handleException
\* in the cases IDIV, IREM, LDIV and LREM
DivException(op) == ArithmeticException

\* idiv, irem, ldiv, lrem: a zero divisor raises java/lang/ArithmeticException
ExecDivRem ==
    /\ \E op \in {IDIV, IREM, LDIV, LREM} :
          /\ Fetch(op)
          /\ Len(Fetched.ostack) >= 2
          /\ LET n == Len(Fetched.ostack)
                 v2 == Fetched.ostack[n].n
                 v1 == Fetched.ostack[n - 1].n
                 before == WithTop([Fetched EXCEPT !.ostack = SubSeq(@, 1, n - 2)])
                 exRef == StrVal(<<DivException(op)>>)
                 r == HandleException(before, exRef, DivException(op))
             IN  IF v2 = 0
                 THEN /\ Complete(r.stack, r.err)
                      /\ lastThrow' = Thrown(DivException(op), exRef, before, r)
                 ELSE /\ Complete(WithTop([Fetched EXCEPT !.ostack =
                                      Append(SubSeq(@, 1, n - 2),
                                             IntVal(DivRemResult(op, v1, v2)))]), NoErr)
                      /\ UNCHANGED lastThrow
    /\ UNCHANGED <<prog, nextId, pendingRunnables, elRunning>>
    /\ UNCHANGED notInterpVars

\* ---- method invocation (instructions_invoke.go) ----

\* ClassFile.GetMethod on the class under execution: name and descriptor
GetMethod(name, desc) == name \in Methods /\ prog[name].desc = desc

\* a Go panic inside the instruction: nothing recovers it, the process ends
Crash(stk, message) ==
    /\ stack' = stk
    /\ runState' = "panic"
    /\ runErr' = message
    /\ UNCHANGED <<bridge, lastBridge>>

\* the local an argument of the parsed type arrives in: PopRef and SetRef
\* for 'L' and '[', PopSlot and SetSlot for the others
ArgLocal(type, entry) ==
    IF type \in {"L", "["} THEN [slot |-> 0, ref |-> RefOf(entry)]
    ELSE [slot |-> SlotOf(entry), ref |-> NullVal]

\* "for j := argCount - 1; j >= 0; j--": one entry is popped per parsed
\* type and stored in local j + first of the frame of method m; a pop on
\* an empty stack and a store beyond the locals panic
MoveArguments(frame, m, argTypes, first) ==
    LET n == Len(argTypes)
        have == Len(frame.ostack)
        maxL == prog[m].maxLocals
        args == SubSeq(frame.ostack, have - n + 1, have)
    IN  IF n > 0 /\ have = 0
        THEN [panic |-> IndexPanic(-1, Capacity(frame.m)), caller |-> frame, locals |-> <<>>]
        ELSE IF n > 0 /\ n - 1 + first >= maxL
        THEN [panic |-> IndexPanic(n - 1 + first, maxL), caller |-> frame, locals |-> <<>>]
        ELSE IF have < n
        THEN [panic |-> IndexPanic(-1, Capacity(frame.m)), caller |-> frame, locals |-> <<>>]
        ELSE [panic |-> NoErr,
              caller |-> [frame EXCEPT !.ostack = SubSeq(@, 1, have - n)],
              locals |-> [i \in 1..maxL |->
                            IF i - first \in 1..n
                            THEN ArgLocal(argTypes[i - first], args[i - first])
                            ELSE EmptyLocal]]

\* invokestatic: a registered native runs at once on the caller's frame;
\* any other method of the class gets a new frame
ExecInvokeStatic ==
    /\ Fetch(INVOKESTATIC)
    /\ LET methodRef == CP[ReadU2(Fetched)]
           frame == [Fetched EXCEPT !.pc = @ + 2]
           n == Len(frame.ostack)
       IN  IF methodRef.cls = "EventLoop" /\ methodRef.name = "submitRunnable"
           THEN \* nativeEventLoopSubmitRunnable
                /\ n >= 1
                /\ IF frame.ostack[n].kind = "null"
                   THEN /\ Complete(WithTop([frame EXCEPT !.ostack = SubSeq(@, 1, n - 1)]),
                                    NullRunnableError)
                        /\ UNCHANGED pendingRunnables
                   ELSE /\ Complete(WithTop([frame EXCEPT !.ostack = SubSeq(@, 1, n - 1)]),
                                    NoErr)
                        /\ pendingRunnables' = Append(pendingRunnables, frame.ostack[n])
                /\ UNCHANGED <<nextId, elRunning>>
           ELSE IF methodRef.cls = "EventLoop" /\ methodRef.name = "run"
           THEN \* nativeEventLoopRun: EventLoop.Run returns at once when
                \* the loop is running already
                /\ Complete(WithTop(frame), NoErr)
                /\ elRunning' = TRUE
                /\ UNCHANGED <<nextId, pendingRunnables>>
           ELSE IF methodRef.cls # MainClass
           THEN /\ Complete(WithTop(frame), <<"class not found: ", methodRef.cls>>)
                /\ UNCHANGED <<nextId, pendingRunnables, elRunning>>
           ELSE IF ~GetMethod(methodRef.name, methodRef.desc)
           THEN /\ Complete(WithTop(frame), <<"method not found: ", methodRef.name>>)
                /\ UNCHANGED <<nextId, pendingRunnables, elRunning>>
           ELSE LET moved == MoveArguments(frame, methodRef.name,
                                           parseArgTypes(methodRef.desc), 0)
                IN  IF moved.panic # NoErr
                    THEN /\ Crash(WithTop(frame), moved.panic)
                         /\ UNCHANGED <<nextId, pendingRunnables, elRunning>>
                    ELSE /\ Complete(PushFrame(WithTop(moved.caller),
                                               [NewFrame(nextId, methodRef.name)
                                                  EXCEPT !.locals = moved.locals]), NoErr)
                         /\ nextId' = nextId + 1
                         /\ UNCHANGED <<pendingRunnables, elRunning>>
    /\ UNCHANGED <<prog, lastThrow>>
    /\ UNCHANGED notInterpVars

\* invokevirtual (the two PrintStream methods aside): the arguments and
\* the receiver are popped, then the receiver's class is searched
ExecInvokeVirtual ==
    /\ Fetch(INVOKEVIRTUAL)
    /\ LET methodRef == CP[ReadU2(Fetched)]
           frame == [Fetched EXCEPT !.pc = @ + 2]
           argTypes == parseArgTypes(methodRef.desc)
           n == Len(argTypes)
           have == Len(frame.ostack)
       IN  IF have < n + 1
           THEN Crash(WithTop(frame), IndexPanic(-1, Capacity(frame.m))) /\ UNCHANGED nextId
           ELSE LET objRef == RefOf(frame.ostack[have - n])
                    args == SubSeq(frame.ostack, have - n + 1, have)
                    caller == WithTop([frame EXCEPT !.ostack = SubSeq(@, 1, have - n - 1)])
                IN  IF objRef.kind = "null"
                    THEN /\ Complete(caller,
                                     <<"NullPointerException: invokevirtual on null object">>)
                         /\ UNCHANGED nextId
                    ELSE IF objRef.kind # "obj"
                    THEN /\ Complete(caller, <<"invokevirtual: not an Object: ", "string">>)
                         /\ UNCHANGED nextId
                    ELSE IF ~GetMethod(methodRef.name, methodRef.desc)
                    THEN /\ Complete(caller, <<"method not found: ", objRef.str[1], ".",
                                               methodRef.name>> \o methodRef.desc)
                         /\ UNCHANGED nextId
                    ELSE IF n + 1 > prog[methodRef.name].maxLocals
                    THEN /\ Crash(caller, IndexPanic(prog[methodRef.name].maxLocals,
                                                     prog[methodRef.name].maxLocals))
                         /\ UNCHANGED nextId
                    ELSE /\ Complete(PushFrame(caller,
                                 [NewFrame(nextId, methodRef.name) EXCEPT !.locals =
                                    [i \in 1..prog[methodRef.name].maxLocals |->
                                       IF i = 1 THEN [slot |-> 0, ref |-> objRef]
                                       ELSE IF i - 1 \in 1..n
                                       THEN ArgLocal(argTypes[i - 1], args[i - 1])
                                       ELSE EmptyLocal]]), NoErr)
                         /\ nextId' = nextId + 1
    /\ UNCHANGED <<prog, pendingRunnables, elRunning, lastThrow>>
    /\ UNCHANGED notInterpVars

\* invokespecial: a method found in a loaded class gets a frame; a
\* constructor that is not found is skipped over, its countArgs entries
\* and the receiver popped; any other method is an error
ExecInvokeSpecial ==
    /\ Fetch(INVOKESPECIAL)
    /\ LET methodRef == CP[ReadU2(Fetched)]
           frame == [Fetched EXCEPT !.pc = @ + 2]
           have == Len(frame.ostack)
       IN  IF methodRef.cls = MainClass /\ GetMethod(methodRef.name, methodRef.desc)
           THEN LET moved == MoveArguments(frame, methodRef.name,
                                           parseArgTypes(methodRef.desc), 1)
                IN  IF moved.panic # NoErr
                    THEN Crash(WithTop(frame), moved.panic) /\ UNCHANGED nextId
                    ELSE IF moved.caller.ostack = <<>>
                    THEN /\ Crash(WithTop(moved.caller), IndexPanic(-1, Capacity(frame.m)))
                         /\ UNCHANGED nextId
                    ELSE IF prog[methodRef.name].maxLocals = 0
                    THEN /\ Crash(WithTop(moved.caller), IndexPanic(0, 0))
                         /\ UNCHANGED nextId
                    ELSE LET k == Len(moved.caller.ostack)
                         IN  /\ Complete(PushFrame(
                                    WithTop([moved.caller EXCEPT !.ostack = SubSeq(@, 1, k - 1)]),
                                    [NewFrame(nextId, methodRef.name) EXCEPT !.locals =
                                       [moved.locals EXCEPT ![1] =
                                          [slot |-> 0, ref |-> RefOf(moved.caller.ostack[k])]]]),
                                    NoErr)
                             /\ nextId' = nextId + 1
           ELSE IF methodRef.name = "<init>"
           THEN LET argCount == countArgs(methodRef.desc)
                IN  /\ IF have < argCount + 1
                       THEN Crash(WithTop(frame), IndexPanic(-1, Capacity(frame.m)))
                       ELSE Complete(WithTop([frame EXCEPT !.ostack =
                                                SubSeq(@, 1, have - argCount - 1)]), NoErr)
                    /\ UNCHANGED nextId
           ELSE /\ Complete(WithTop(frame),
                            <<"unsupported invokespecial: ", methodRef.cls, ".",
                              methodRef.name>> \o methodRef.desc)
                /\ UNCHANGED nextId
    /\ UNCHANGED <<prog, pendingRunnables, elRunning, lastThrow>>
    /\ UNCHANGED notInterpVars

\* ---- loads and value returns ----

\* the local an iload_n, lload_n or aload_n instruction reads
LoadIndex(op) == IF op \in {ILOAD_1, ALOAD_1} THEN 1 ELSE 0

\* iload_0, iload_1, lload_0 push the primitive cell of the local,
\* aload_0 and aload_1 its reference cell
ExecLoad ==
    /\ \E op \in {ILOAD_0, ILOAD_1, LLOAD_0, ALOAD_0, ALOAD_1} :
          /\ Fetch(op)
          /\ LET maxL == prog[Fetched.m].maxLocals
                 local == Fetched.locals[LoadIndex(op) + 1]
             IN  IF LoadIndex(op) >= maxL
                 THEN Crash(WithTop(Fetched), IndexPanic(LoadIndex(op), maxL))
                 ELSE IF Len(Fetched.ostack) >= Capacity(Fetched.m)
                 THEN Crash(WithTop(Fetched),
                            IndexPanic(Capacity(Fetched.m), Capacity(Fetched.m)))
                 ELSE Complete(WithTop([Fetched EXCEPT !.ostack =
                                   Append(@, IF op \in {ALOAD_0, ALOAD_1} THEN local.ref
                                             ELSE IntVal(local.slot))]), NoErr)
    /\ UNCHANGED <<prog, nextId, pendingRunnables, elRunning, lastThrow>>
    /\ UNCHANGED notInterpVars

\* a changed return: the value is not handed to the caller
ReturnInto_Dropped(stk, retVal) == stk

\* "caller.OperandStack.Push...(retVal)" on the frame that is now current
ReturnInto(stk, retVal) == [stk EXCEPT ![Len(stk)].ostack = Append(@, retVal)]

\* ireturn, lreturn, areturn: the value is popped, the frame is popped and
\* the value is pushed on the caller's operand stack, if there is a caller
ExecValueReturn ==
    /\ \E op \in {IRETURN, LRETURN, ARETURN} :
          /\ Fetch(op)
          /\ IF Fetched.ostack = <<>>
             THEN Crash(WithTop(Fetched), IndexPanic(-1, Capacity(Fetched.m)))
             ELSE LET top == Fetched.ostack[Len(Fetched.ostack)]
                      retVal == IF op = ARETURN THEN RefOf(top) ELSE IntVal(SlotOf(top))
                      popped == PopFrame(stack)
                  IN  IF popped = <<>> THEN Complete(popped, NoErr)
                      ELSE IF Len(CurrentFrame(popped).ostack) >= Capacity(CurrentFrame(popped).m)
                      THEN Crash(popped, IndexPanic(Capacity(CurrentFrame(popped).m),
                                                    Capacity(CurrentFrame(popped).m)))
                      ELSE Complete(ReturnInto(popped, retVal), NoErr)
    /\ UNCHANGED <<prog, nextId, pendingRunnables, elRunning, lastThrow>>
    /\ UNCHANGED notInterpVars

\* EventLoop.Run inside the native takes the next task; its callback calls
\* InvokeRunnable, that is InvokeMethod(runnable, "run", "()V"), which
\* pushes the callback's frame and starts runUntilFrameCompletes
NativeRunTask ==
    /\ runState = "running"
    /\ elRunning
    /\ ~InBridge
    /\ pendingRunnables # <<>>
    /\ pendingRunnables' = Tail(pendingRunnables)
    /\ IF Head(pendingRunnables).kind # "obj"
       THEN /\ lastBridge' = [count |-> lastBridge.count + 1, entry |-> Len(stack),
                              exit |-> Len(stack), err |-> NotObjectError]
            /\ UNCHANGED <<stack, nextId, bridge>>
       ELSE /\ stack' = PushFrame(stack, [NewFrame(nextId, "run") EXCEPT
                                  !.locals[1] = [slot |-> 0, ref |-> Head(pendingRunnables)]])
            /\ nextId' = nextId + 1
            /\ bridge' = [target |-> nextId, entry |-> Len(stack)]
            /\ UNCHANGED lastBridge
    /\ UNCHANGED <<prog, elRunning, runState, runErr, lastThrow>>
    /\ UNCHANGED notInterpVars

\* EventLoop.Run finds no task left and returns; the native returns nil
\* and the interrupted instruction loop goes on
NativeRunReturn ==
    /\ runState = "running"
    /\ elRunning
    /\ ~InBridge
    /\ pendingRunnables = <<>>
    /\ elRunning' = FALSE
    /\ UNCHANGED <<prog, stack, nextId, pendingRunnables, bridge, runState, runErr,
                   lastBridge, lastThrow>>
    /\ UNCHANGED notInterpVars

NextInterp ==
    \/ RunExit
    \/ BridgeExit
    \/ PopFinishedFrame
    \/ ExecConst
    \/ ExecPop
    \/ ExecReturn
    \/ ExecNew
    \/ ExecAthrow
    \/ ExecDivRem
    \/ ExecInvokeStatic
    \/ NativeRunTask
    \/ NativeRunReturn

\* the steps of a run of one of the failing programs, which use neither
\* objects nor the event loop
NextFaults ==
    \/ RunExit
    \/ PopFinishedFrame
    \/ ExecConst
    \/ ExecLconst
    \/ ExecAconstNull
    \/ ExecPop
    \/ ExecReturn
    \/ ExecDivRem
    \/ ExecArrayLength
    \/ ExecUnknown
    \/ ExecNoCase
    \/ ExecInvokeStatic

(* ------------------------------------------------------------------ *)
(* Heap: allocation, Free and the mark-sweep collection (heap.go)      *)
(* ------------------------------------------------------------------ *)

\* the objects (Go pointers) a run creates, and the ids Alloc may hand out
MaxObjects == 2
MaxAllocs == 2
MaxGCRuns == 1

\* estimateSize: base overhead of an Object and the size of one field
ObjectBaseSize == 64
ObjectFieldSize == 16
\* NewHeap: the default collection threshold (10MB)
DefaultGCThreshold == 10485760

Ptrs == 1..MaxObjects
Nil == 0

\* estimateSize of an object of a class with the one reference field "next"
estimateSize(p) == ObjectBaseSize + 1 * ObjectFieldSize

\* map[uint64]any with one key deleted
Delete(m, id) == [k \in (DOMAIN m) \ {id} |-> m[k]]

NoGC == [ran |-> FALSE, roots |-> {}, fields |-> <<>>, before |-> <<>>, after |-> <<>>]

\* Heap.mark: the recursion through Object.Fields; it writes nothing
\* into marked, and it has no visited check: more nested calls than
\* there are objects means it never returns (the goroutine stack overflows)
RECURSIVE mark(_, _, _)
mark(obj, marked, depth) ==
    IF obj = Nil THEN [marked |-> marked, overflow |-> FALSE]
    ELSE IF depth > MaxObjects THEN [marked |-> marked, overflow |-> TRUE]
    ELSE mark(fields[obj], marked, depth + 1)

\* the loop "for _, root := range roots { h.mark(root, marked) }"
MarkRoots(roots) ==
    [marked |-> {}, overflow |-> \E r \in roots : mark(r, {}, 1).overflow]

\* the sweep phase: every id that is not marked is deleted
Sweep(objs, marked) == [id \in {k \in DOMAIN objs : k \in marked} |-> objs[id]]

RECURSIVE SumSizes(_, _)
SumSizes(objs, ids) ==
    IF ids = {} THEN 0
    ELSE LET id == CHOOSE k \in ids : TRUE
         IN  estimateSize(objs[id]) + SumSizes(objs, ids \ {id})

HeapInit ==
    /\ objects = <<>>
    /\ nextID = 0
    /\ totalBytes = 0
    /\ freeCount = 0
    /\ gcRuns = 0
    /\ gcThreshold = DefaultGCThreshold
    /\ gcEnabled = TRUE
    /\ fields = [p \in Ptrs |-> Nil]
    /\ heapState = "ok"
    /\ lastGC = NoGC

\* Heap.GC(roots) as a step on given heap values: the heap after it
GCResult(objs, total, frees, runs, roots) ==
    LET m == MarkRoots(roots)
        kept == Sweep(objs, m.marked)
        gone == (DOMAIN objs) \ (DOMAIN kept)
    IN  [objects |-> kept,
         totalBytes |-> total - SumSizes(objs, gone),
         freeCount |-> frees + Cardinality(gone),
         gcRuns |-> runs + 1,
         overflow |-> m.overflow]

\* Heap.Alloc(obj), with the collection it starts when over the threshold
Alloc(p) ==
    /\ heapState = "ok"
    /\ nextID < MaxAllocs
    /\ nextID' = nextID + 1
    /\ LET objs == [id \in (DOMAIN objects) \cup {nextID + 1} |->
                        IF id = nextID + 1 THEN p ELSE objects[id]]
           total == totalBytes + estimateSize(p)
           r == GCResult(objs, total, freeCount, gcRuns, {})
       IN  IF gcEnabled /\ total > gcThreshold
           THEN /\ objects' = r.objects
                /\ totalBytes' = r.totalBytes
                /\ freeCount' = r.freeCount
                /\ gcRuns' = r.gcRuns
                /\ lastGC' = [ran |-> TRUE, roots |-> {}, fields |-> fields,
                              before |-> objs, after |-> r.objects]
           ELSE /\ objects' = objs
                /\ totalBytes' = total
                /\ lastGC' = NoGC
                /\ UNCHANGED <<freeCount, gcRuns>>
    /\ UNCHANGED <<gcThreshold, gcEnabled, fields, heapState>>
    /\ UNCHANGED notHeapVars

\* Heap.Free(id)
Free(id) ==
    /\ heapState = "ok"
    /\ IF id \in DOMAIN objects
       THEN /\ totalBytes' = totalBytes - estimateSize(objects[id])
            /\ objects' = Delete(objects, id)
            /\ freeCount' = freeCount + 1
       ELSE UNCHANGED <<objects, totalBytes, freeCount>>
    /\ lastGC' = NoGC
    /\ UNCHANGED <<nextID, gcRuns, gcThreshold, gcEnabled, fields, heapState>>
    /\ UNCHANGED notHeapVars

\* Heap.GC(roots) / TriggerGC(roots)
GC(roots) ==
    /\ heapState = "ok"
    /\ gcRuns < MaxGCRuns
    /\ LET r == GCResult(objects, totalBytes, freeCount, gcRuns, roots)
       IN  IF ~gcEnabled
           THEN /\ lastGC' = NoGC
                /\ UNCHANGED <<objects, totalBytes, freeCount, gcRuns, heapState>>
           ELSE IF r.overflow
           THEN /\ heapState' = "stack overflow"
                /\ gcRuns' = r.gcRuns
                /\ lastGC' = NoGC
                /\ UNCHANGED <<objects, totalBytes, freeCount>>
           ELSE /\ objects' = r.objects
                /\ totalBytes' = r.totalBytes
                /\ freeCount' = r.freeCount
                /\ gcRuns' = r.gcRuns
                /\ lastGC' = [ran |-> TRUE, roots |-> roots, fields |-> fields,
                              before |-> objects, after |-> r.objects]
                /\ UNCHANGED heapState
    /\ UNCHANGED <<nextID, gcThreshold, gcEnabled, fields>>
    /\ UNCHANGED notHeapVars

\* Heap.SetGCEnabled
SetGCEnabled(enabled) ==
    /\ heapState = "ok"
    /\ gcEnabled' = enabled
    /\ lastGC' = NoGC
    /\ UNCHANGED <<objects, nextID, totalBytes, freeCount, gcRuns, gcThreshold,
                   fields, heapState>>
    /\ UNCHANGED notHeapVars

\* Heap.SetGCThreshold
SetGCThreshold(bytes) ==
    /\ heapState = "ok"
    /\ gcThreshold' = bytes
    /\ lastGC' = NoGC
    /\ UNCHANGED <<objects, nextID, totalBytes, freeCount, gcRuns, gcEnabled,
                   fields, heapState>>
    /\ UNCHANGED notHeapVars

\* Object.SetFieldRef("next", val) on a live Go object
SetFieldRef(p, val) ==
    /\ heapState = "ok"
    /\ fields' = [fields EXCEPT ![p] = val]
    /\ lastGC' = NoGC
    /\ UNCHANGED <<objects, nextID, totalBytes, freeCount, gcRuns, gcThreshold,
                   gcEnabled, heapState>>
    /\ UNCHANGED notHeapVars

NextHeap ==
    \/ \E p \in Ptrs : Alloc(p)
    \/ \E id \in 1..MaxAllocs : Free(id)
    \/ \E roots \in SUBSET Ptrs : GC(roots)
    \/ \E enabled \in BOOLEAN : SetGCEnabled(enabled)
    \/ \E bytes \in {DefaultGCThreshold, estimateSize(Nil)} : SetGCThreshold(bytes)
    \/ \E p \in Ptrs, val \in Ptrs \cup {Nil} : SetFieldRef(p, val)

(* ------------------------------------------------------------------ *)
(* Event loop (eventloop.go): one goroutine in Run, others calling in  *)
(* ------------------------------------------------------------------ *)

\* the clock runs from 0 to MaxTime (milliseconds); the calls made from
\* outside submit at most MaxTasks tasks and MaxTimers timers, with delays
\* and periods up to MaxDelay
MaxTime == 2
MaxTasks == 2
MaxTimers == 2
MaxDelay == 1

LoopPcs == {"idle", "top", "fire", "firelocked", "select", "checktimers",
            "checktasks", "sleep"}

\* TimerHeap.Less: Deadline.Before, on 0-based positions
Less(h, i, j) == h[i + 1].deadline < h[j + 1].deadline

\* TimerHeap.Swap
Swap(h, i, j) == [h EXCEPT ![i + 1] = h[j + 1], ![j + 1] = h[i + 1]]

\* container/heap up
RECURSIVE up(_, _)
up(h, j) ==
    LET i == (j - 1) \div 2
    IN  IF j = 0 \/ i = j \/ ~Less(h, j, i) THEN h
        ELSE up(Swap(h, i, j), i)

\* container/heap down, on the first n elements
RECURSIVE down(_, _, _)
down(h, i, n) ==
    LET j1 == 2 * i + 1
        j == IF j1 + 1 < n /\ Less(h, j1 + 1, j1) THEN j1 + 1 ELSE j1
    IN  IF j1 >= n THEN h
        ELSE IF ~Less(h, j, i) THEN h
        ELSE down(Swap(h, i, j), j, n)

\* heap.Push(el.timers, timer)
HeapPush(h, timer) == up(Append(h, timer), Len(h))

\* heap.Pop(el.timers): the heap that is left
HeapPop(h) ==
    LET n == Len(h) - 1
    IN  SubSeq(down(Swap(h, 0, n), 0, n), 1, n)

\* mutant: a timer is ready only when its deadline lies before now
Ready_StrictlyBefore(timer, at) == timer.deadline < at

\* fireReadyTimers line 492: not timer.Deadline.After(now)
Ready(timer, at) == ~(timer.deadline > at)

TimerEvent(timer) == [kind |-> "timer", deadline |-> timer.deadline]
TaskEvent(id) == [kind |-> "task", deadline |-> 0]

\* a timer that is not put back
NotPut == -1

\* lines 506-508: the deadline an interval timer is put back with
NextDeadline(timer, at) == at + timer.interval

\* the loop of fireReadyTimers: pop and fire every ready timer, put an
\* interval timer back with the deadline now + interval; fired lists the
\* timers as they were popped, each with the deadline it was put back with
RECURSIVE FireLoop(_, _, _)
FireLoop(h, at, fired) ==
    IF Len(h) = 0 \/ ~Ready(h[1], at) THEN [timers |-> h, fired |-> fired]
    ELSE LET timer == h[1]
             rest == HeapPop(h)
         IN  IF timer.interval > 0
             THEN FireLoop(HeapPush(rest, [timer EXCEPT !.deadline = NextDeadline(timer, at)]),
                           at,
                           Append(fired, [timer |-> timer, put |-> NextDeadline(timer, at)]))
             ELSE FireLoop(rest, at, Append(fired, [timer |-> timer, put |-> NotPut]))

\* how many timers of the heap have the deadline d
CountDeadline(h, d) == Cardinality({k \in 1..Len(h) : h[k].deadline = d})

NoTick == [due |-> [d \in 0..MaxTime |-> 0], events |-> <<>>]

\* NewEventLoop
LoopInit ==
    /\ clock = 0
    /\ tasks = <<>>
    /\ timers = <<>>
    /\ running = FALSE
    /\ stopped = FALSE
    /\ lpc = "idle"
    /\ now = 0
    /\ wake = 0
    /\ hasTimers = FALSE
    /\ taskCount = 0
    /\ timerCount = 0
    /\ submitted = 0
    /\ scheduled = 0
    /\ tick = NoTick

\* time passes
ClockTick ==
    /\ clock < MaxTime
    /\ clock' = clock + 1
    /\ UNCHANGED <<tasks, timers, running, stopped, lpc, now, wake, hasTimers, taskCount,
                   timerCount, submitted, scheduled, tick>>
    /\ UNCHANGED notLoopVars

\* EventLoop.Submit, from any goroutine
Submit ==
    /\ submitted < MaxTasks
    /\ submitted' = submitted + 1
    /\ tasks' = Append(tasks, submitted + 1)
    /\ UNCHANGED <<clock, timers, running, stopped, lpc, now, wake, hasTimers, taskCount,
                   timerCount, scheduled, tick>>
    /\ UNCHANGED notLoopVars

\* EventLoop.SetTimeout(delayMs), from any goroutine
SetTimeout(delayMs) ==
    /\ scheduled < MaxTimers
    /\ scheduled' = scheduled + 1
    /\ timers' = HeapPush(timers, [deadline |-> clock + delayMs, interval |-> 0])
    /\ UNCHANGED <<clock, tasks, running, stopped, lpc, now, wake, hasTimers, taskCount,
                   timerCount, submitted, tick>>
    /\ UNCHANGED notLoopVars

\* EventLoop.SetInterval(periodMs), from any goroutine
SetInterval(periodMs) ==
    /\ scheduled < MaxTimers
    /\ scheduled' = scheduled + 1
    /\ timers' = HeapPush(timers, [deadline |-> clock + periodMs, interval |-> periodMs])
    /\ UNCHANGED <<clock, tasks, running, stopped, lpc, now, wake, hasTimers, taskCount,
                   timerCount, submitted, tick>>
    /\ UNCHANGED notLoopVars

\* EventLoop.Stop, from any goroutine
Stop ==
    /\ IF running
       THEN running' = FALSE /\ stopped' = TRUE
       ELSE UNCHANGED <<running, stopped>>
    /\ UNCHANGED <<clock, tasks, timers, lpc, now, wake, hasTimers, taskCount, timerCount,
                   submitted, scheduled, tick>>
    /\ UNCHANGED notLoopVars

\* EventLoop.Run up to the start of its loop
RunStart ==
    /\ lpc = "idle"
    /\ IF running
       THEN UNCHANGED <<running, stopped, lpc>>
       ELSE running' = TRUE /\ stopped' = FALSE /\ lpc' = "top"
    /\ UNCHANGED <<clock, tasks, timers, now, wake, hasTimers, taskCount, timerCount,
                   submitted, scheduled, tick>>
    /\ UNCHANGED notLoopVars

\* the head of one iteration (lines 409-414): Run returns when stopped,
\* otherwise a tick begins
TickStart ==
    /\ lpc = "top"
    /\ IF stopped
       THEN lpc' = "idle" /\ tick' = NoTick
       ELSE /\ lpc' = "fire"
            /\ tick' = [due |-> [d \in 0..MaxTime |->
                                    IF d <= clock THEN CountDeadline(timers, d) ELSE 0],
                        events |-> <<>>]
    /\ UNCHANGED <<clock, tasks, timers, running, stopped, now, wake, hasTimers,
                   taskCount, timerCount, submitted, scheduled>>
    /\ UNCHANGED notLoopVars

\* fireReadyTimers line 484: now := time.Now(), before the lock is taken
ReadNow ==
    /\ lpc = "fire"
    /\ now' = clock
    /\ lpc' = "firelocked"
    /\ UNCHANGED <<clock, tasks, timers, running, stopped, wake, hasTimers, taskCount,
                   timerCount, submitted, scheduled, tick>>
    /\ UNCHANGED notLoopVars

\* fireReadyTimers lines 486-510, all under el.mu
FireReadyTimers ==
    /\ lpc = "firelocked"
    /\ LET r == FireLoop(timers, now, <<>>)
       IN  /\ timers' = r.timers
           /\ timerCount' = timerCount + Len(r.fired)
           /\ tick' = [tick EXCEPT !.events =
                           @ \o [k \in 1..Len(r.fired) |-> TimerEvent(r.fired[k].timer)]]
    /\ lpc' = "select"
    /\ now' = 0
    /\ UNCHANGED <<clock, tasks, running, stopped, wake, hasTimers, taskCount,
                   submitted, scheduled>>
    /\ UNCHANGED notLoopVars

\* a channel that hands out the value sent last
Receive_Newest(queue) ==
    [task |-> queue[Len(queue)], rest |-> SubSeq(queue, 1, Len(queue) - 1)]

\* task := <-el.tasks (line 421): a buffered channel hands out the values in
\* the order they were sent
Receive(queue) == [task |-> Head(queue), rest |-> Tail(queue)]

\* the select of lines 420-425: a task is received and its callback run
SelectTask ==
    /\ lpc = "select"
    /\ tasks # <<>>
    /\ tasks' = Receive(tasks).rest
    /\ taskCount' = taskCount + 1
    /\ tick' = [tick EXCEPT !.events = Append(@, TaskEvent(Receive(tasks).task))]
    /\ lpc' = "top"
    /\ UNCHANGED <<clock, timers, running, stopped, now, wake, hasTimers, timerCount,
                   submitted, scheduled>>
    /\ UNCHANGED notLoopVars

\* the select of lines 426-427: the stopped channel is closed, Run returns
SelectStopped ==
    /\ lpc = "select"
    /\ stopped
    /\ lpc' = "idle"
    /\ tick' = NoTick
    /\ UNCHANGED <<clock, tasks, timers, running, stopped, now, wake, hasTimers,
                   taskCount, timerCount, submitted, scheduled>>
    /\ UNCHANGED notLoopVars

\* the select's default case: neither channel is ready
SelectDefault ==
    /\ lpc = "select"
    /\ tasks = <<>>
    /\ ~stopped
    /\ lpc' = "checktimers"
    /\ UNCHANGED <<clock, tasks, timers, running, stopped, now, wake, hasTimers,
                   taskCount, timerCount, submitted, scheduled, tick>>
    /\ UNCHANGED notLoopVars

\* lines 430-432: hasTimers is read under the lock
CheckTimers ==
    /\ lpc = "checktimers"
    /\ hasTimers' = (Len(timers) > 0)
    /\ lpc' = "checktasks"
    /\ UNCHANGED <<clock, tasks, timers, running, stopped, now, wake, taskCount,
                   timerCount, submitted, scheduled, tick>>
    /\ UNCHANGED notLoopVars

\* a changed line 434: the timers are not looked at
NoWork_TasksOnly(anyTimers, queue) == Len(queue) = 0

\* line 434: no more work to do
NoWork(anyTimers, queue) == ~anyTimers /\ Len(queue) = 0

\* when a sleep of one millisecond that begins at time t is over; the
\* clock stops at MaxTime, which stands for every later time
SleepUntil(t) == IF t < MaxTime THEN t + 1 ELSE MaxTime

\* lines 434-443: with no timers and no tasks Run clears running and
\* returns, otherwise it sleeps for a millisecond
CheckTasks ==
    /\ lpc = "checktasks"
    /\ IF NoWork(hasTimers, tasks)
       THEN running' = FALSE /\ lpc' = "idle" /\ tick' = NoTick /\ UNCHANGED wake
       ELSE lpc' = "sleep" /\ wake' = SleepUntil(clock) /\ UNCHANGED <<running, tick>>
    /\ hasTimers' = FALSE
    /\ UNCHANGED <<clock, tasks, timers, stopped, now, taskCount, timerCount,
                   submitted, scheduled>>
    /\ UNCHANGED notLoopVars

\* time.Sleep(time.Millisecond) is over
SleepDone ==
    /\ lpc = "sleep"
    /\ clock >= wake
    /\ lpc' = "top"
    /\ wake' = 0
    /\ UNCHANGED <<clock, tasks, timers, running, stopped, now, hasTimers, taskCount,
                   timerCount, submitted, scheduled, tick>>
    /\ UNCHANGED notLoopVars

NextLoop ==
    \/ ClockTick
    \/ Submit
    \/ \E delayMs \in 0..MaxDelay : SetTimeout(delayMs)
    \/ \E periodMs \in 0..MaxDelay : SetInterval(periodMs)
    \/ Stop
    \/ RunStart
    \/ TickStart
    \/ ReadNow
    \/ FireReadyTimers
    \/ SelectTask
    \/ SelectStopped
    \/ SelectDefault
    \/ CheckTimers
    \/ CheckTasks
    \/ SleepDone

(* ------------------------------------------------------------------ *)
(* EventLoop.RunFor: the caller, and the goroutine it starts           *)
(* ------------------------------------------------------------------ *)

\* no RunFor call has been made
RunForInit ==
    /\ rfCaller = "none"
    /\ rfGo = "none"
    /\ rfDeadline = 0

\* RunFor lines 450-456: done is made, the goroutine is started and the
\* caller reaches its select, where time.After(maxDuration) is created
RunForCall(maxDuration) ==
    /\ rfCaller = "none"
    /\ rfCaller' = "waiting"
    /\ rfGo' = "spawned"
    /\ rfDeadline' = clock + maxDuration
    /\ UNCHANGED loopVars
    /\ UNCHANGED notRunForVars

\* the goroutine calls el.Run (line 452): Run's lines 398-406
RunForGoRun ==
    /\ rfGo = "spawned"
    /\ IF running
       THEN rfGo' = "finished" /\ UNCHANGED <<running, stopped, lpc>>
       ELSE rfGo' = "inrun" /\ running' = TRUE /\ stopped' = FALSE /\ lpc' = "top"
    /\ UNCHANGED <<clock, tasks, timers, now, wake, hasTimers, taskCount, timerCount,
                   submitted, scheduled, tick>>
    /\ UNCHANGED <<rfCaller, rfDeadline>>
    /\ UNCHANGED notRunForVars

\* Run has returned in the goroutine: close(done), line 453
RunForGoDone ==
    /\ rfGo = "inrun"
    /\ lpc = "idle"
    /\ rfGo' = "finished"
    /\ UNCHANGED loopVars
    /\ UNCHANGED <<rfCaller, rfDeadline>>
    /\ UNCHANGED notRunForVars

\* the select's case <-done (line 457): RunFor returns
RunForDone ==
    /\ rfCaller = "waiting"
    /\ rfGo = "finished"
    /\ rfCaller' = "done"
    /\ UNCHANGED loopVars
    /\ UNCHANGED <<rfGo, rfDeadline>>
    /\ UNCHANGED notRunForVars

\* the select's case <-time.After(maxDuration) (lines 459-460): el.Stop()
\* (lines 465-473) and RunFor returns; it does not wait for the goroutine
RunForTimeout ==
    /\ rfCaller = "waiting"
    /\ clock >= rfDeadline
    /\ rfCaller' = "timeout"
    /\ IF running
       THEN running' = FALSE /\ stopped' = TRUE
       ELSE UNCHANGED <<running, stopped>>
    /\ UNCHANGED <<clock, tasks, timers, lpc, now, wake, hasTimers, taskCount, timerCount,
                   submitted, scheduled, tick>>
    /\ UNCHANGED <<rfGo, rfDeadline>>
    /\ UNCHANGED notRunForVars

\* a loop that is only ever run through RunFor, with work submitted and
\* scheduled from other goroutines
NextRunFor ==
    \/ \E maxDuration \in 0..MaxDelay : RunForCall(maxDuration)
    \/ RunForGoRun
    \/ RunForGoDone
    \/ RunForDone
    \/ RunForTimeout
    \/ ClockTick
    \/ Submit
    \/ \E delayMs \in 0..MaxDelay : SetTimeout(delayMs)
    \/ \E periodMs \in 0..MaxDelay : SetInterval(periodMs)
    \/ TickStart
    \/ ReadNow
    \/ FireReadyTimers
    \/ SelectTask
    \/ SelectStopped
    \/ SelectDefault
    \/ CheckTimers
    \/ CheckTasks
    \/ SleepDone

(* ------------------------------------------------------------------ *)
(* Exception matching (runtime/exception.go) as calls on given inputs  *)
(* ------------------------------------------------------------------ *)

\* exception tables of the calls have up to MaxTableLen entries
MaxTableLen == 2

\* the class names thrown: those of exception.go's two tables, other
\* library exceptions, and a class of the program
ThrownClasses ==
    { "java/lang/Throwable", "java/lang/Exception", RTE,
      NullPointerException, "java/lang/ArrayIndexOutOfBoundsException",
      ArithmeticException, "java/lang/IllegalArgumentException", ISE,
      "java/lang/IndexOutOfBoundsException", "java/lang/ClassCastException",
      "java/lang/NumberFormatException", "java/io/IOException",
      "java/io/FileNotFoundException", "java/lang/NegativeArraySizeException",
      "java/lang/IllegalMonitorStateException", "java/lang/Error", MainClass }

\* the catch types of handlers; "" is what GetClassName gives for an index
\* that names no class
CatchClasses ==
    { "java/lang/Throwable", "java/lang/Exception", RTE, ISE, ArithmeticException,
      "java/io/IOException", "" }

NoQuery == [kind |-> "none", thrown |-> "", catch |-> "", table |-> <<>>, pc |-> 0]
NoAnswer == [done |-> FALSE, matches |-> FALSE, handlerPC |-> -1]

MatchQueries ==
    { [kind |-> "match", thrown |-> t, catch |-> c, table |-> <<>>, pc |-> 0] :
        t \in ThrownClasses, c \in CatchClasses }

\* exception-table entries over the pcs 0..2: catch-any, and catch types
\* that name RuntimeException and IllegalStateException
TableEntries ==
    { ExceptionEntry(startPC, endPC, handlerPC, catchType) :
        startPC \in {0, 1}, endPC \in {1, 2}, handlerPC \in {10, 20},
        catchType \in {0, CpIndex(CpClass(RTE)), CpIndex(CpClass(ISE))} }

Tables == UNION { [1..n -> TableEntries] : n \in 0..MaxTableLen }

FindQueries ==
    { [kind |-> "find", thrown |-> t, catch |-> "", table |-> table, pc |-> pc] :
        t \in {RTE, ArithmeticException}, table \in Tables, pc \in 0..2 }

\* no call is made
CallIdle ==
    /\ query = NoQuery
    /\ answer = NoAnswer

\* the arguments of one call
CallInit ==
    /\ query \in MatchQueries \cup FindQueries
    /\ answer = NoAnswer

\* matchesException(thrownClass, catchClass)
CallMatchesException ==
    /\ query.kind = "match"
    /\ ~answer.done
    /\ answer' = [done |-> TRUE, matches |-> matchesException(query.thrown, query.catch),
                  handlerPC |-> -1]
    /\ UNCHANGED query
    /\ UNCHANGED notCallVars

\* FindExceptionHandler(code, cp, pc, exceptionClass)
CallFindExceptionHandler ==
    /\ query.kind = "find"
    /\ ~answer.done
    /\ answer' = [done |-> TRUE, matches |-> FALSE,
                  handlerPC |-> FindExceptionHandler(query.table, query.pc, query.thrown)]
    /\ UNCHANGED query
    /\ UNCHANGED notCallVars

NextCall ==
    \/ CallMatchesException
    \/ CallFindExceptionHandler

(* ------------------------------------------------------------------ *)
(* Heap.Alloc step by step, called from several goroutines (heap.go)   *)
(* ------------------------------------------------------------------ *)

\* a goroutine that is not inside Alloc
NotAllocating == [pc |-> "idle", id |-> 0, obj |-> Nil, floor |-> 0]

AllocIdle ==
    /\ allocs = [g \in Threads |-> NotAllocating]
    /\ returned = <<>>

\* NewHeap followed by SetGCEnabled(false)
AllocInit ==
    /\ allocs = [g \in Threads |-> NotAllocating]
    /\ returned = <<>>
    /\ objects = <<>>
    /\ nextID = 0
    /\ totalBytes = 0
    /\ freeCount = 0
    /\ gcRuns = 0
    /\ gcThreshold = DefaultGCThreshold
    /\ gcEnabled = FALSE
    /\ fields = [p \in Ptrs |-> Nil]
    /\ heapState = "ok"
    /\ lastGC = NoGC

\* atomic.Uint64.Add(1): the new value of the counter
AddOne_Stale(counter) == IF counter = 0 THEN 1 ELSE counter
AddOne(counter) == counter + 1

\* the highest id any call of Alloc has returned so far
RECURSIVE HighestReturned(_)
HighestReturned(rets) ==
    IF rets = <<>> THEN 0
    ELSE LET rest == HighestReturned(Tail(rets))
         IN  IF Head(rets).id > rest THEN Head(rets).id ELSE rest

ReturnedIds == {returned[k].id : k \in DOMAIN returned}

\* Heap.Get(id): the stored object, nil for an id that is not in the map
Get(id) == IF id \in DOMAIN objects THEN objects[id] ELSE Nil

\* Alloc, "id := h.nextID.Add(1)"
AllocTakeId(g, p) ==
    /\ allocs[g].pc = "idle"
    /\ nextID < MaxAllocs
    /\ nextID' = AddOne(nextID)
    /\ allocs' = [allocs EXCEPT ![g] = [pc |-> "store", id |-> AddOne(nextID), obj |-> p,
                                        floor |-> HighestReturned(returned)]]
    /\ UNCHANGED <<objects, totalBytes, freeCount, gcRuns, gcThreshold, gcEnabled,
                   fields, heapState, lastGC, returned>>
    /\ UNCHANGED notAllocVars

\* Alloc, "h.objects[id] = obj" under objectMutex
AllocStore(g) ==
    /\ allocs[g].pc = "store"
    /\ objects' = [id \in (DOMAIN objects) \cup {allocs[g].id} |->
                       IF id = allocs[g].id THEN allocs[g].obj ELSE objects[id]]
    /\ allocs' = [allocs EXCEPT ![g].pc = "account"]
    /\ UNCHANGED <<nextID, totalBytes, freeCount, gcRuns, gcThreshold, gcEnabled,
                   fields, heapState, lastGC, returned>>
    /\ UNCHANGED notAllocVars

\* Alloc, from "h.totalBytes.Add(size)" to "return id": the collection
\* it starts when enabled and over the threshold, then the return
AllocReturn(g) ==
    /\ allocs[g].pc = "account"
    /\ LET total == totalBytes + estimateSize(allocs[g].obj)
           r == GCResult(objects, total, freeCount, gcRuns, {})
       IN  IF gcEnabled /\ total > gcThreshold
           THEN /\ objects' = r.objects
                /\ totalBytes' = r.totalBytes
                /\ freeCount' = r.freeCount
                /\ gcRuns' = r.gcRuns
           ELSE /\ totalBytes' = total
                /\ UNCHANGED <<objects, freeCount, gcRuns>>
    /\ returned' = Append(returned, [id |-> allocs[g].id, obj |-> allocs[g].obj,
                                     floor |-> allocs[g].floor])
    /\ allocs' = [allocs EXCEPT ![g] = NotAllocating]
    /\ UNCHANGED <<nextID, gcThreshold, gcEnabled, fields, heapState, lastGC>>
    /\ UNCHANGED notAllocVars

\* Free(id) by a goroutine that holds an id Alloc returned
FreeReturned ==
    \E id \in ReturnedIds : Free(id)

\* SetGCThreshold while the Allocs run
LowerThreshold ==
    \E bytes \in {DefaultGCThreshold, estimateSize(Nil)} : SetGCThreshold(bytes)

TakeId == \E g \in Threads, p \in Ptrs : AllocTakeId(g, p)
StoreObject == \E g \in Threads : AllocStore(g)
ReturnId == \E g \in Threads : AllocReturn(g)

NextAlloc ==
    \/ TakeId
    \/ StoreObject
    \/ ReturnId
    \/ FreeReturned
    \/ LowerThreshold

(* ------------------------------------------------------------------ *)
(* OperandStack and LocalVars: the two cells of every slot (frame.go)  *)
(* ------------------------------------------------------------------ *)

\* NewOperandStack(maxSize) and NewLocalVars(maxLocals) of the frame
MaxStackSlots == 2
MaxLocalSlots == 1

EmptyRef == "nil"
SlotRefs == {"obj"}
IntValues == {1}

\* the IEEE 754 bits of the float32 constants 0.0 and 1.0
FloatValues == {"0.0", "1.0"}
Float32bits(f) == IF f = "1.0" THEN 1065353216 ELSE 0

\* the IEEE 754 bits of the float64 values 0.0 and 4.9e-324
DoubleValues == {"0.0", "4.9e-324"}
Float64bits(d) == IF d = "4.9e-324" THEN 1 ELSE 0

NewCells(n) == [slots |-> [i \in 1..n |-> 0], refs |-> [i \in 1..n |-> EmptyRef]]

SlotsIdle ==
    /\ opstack = [size |-> 0, cells |-> NewCells(MaxStackSlots)]
    /\ locals = NewCells(MaxLocalSlots)
    /\ wrote = [stack |-> [i \in 1..MaxStackSlots |-> "none"],
                locals |-> [i \in 1..MaxLocalSlots |-> "none"]]

\* cell i of the Go slices is element i + 1 here
SetCell(cells, i, bits, ref) ==
    [slots |-> [cells.slots EXCEPT ![i + 1] = bits],
     refs |-> [cells.refs EXCEPT ![i + 1] = ref]]

SlotAt(cells, i) == cells.slots[i + 1]
RefAt(cells, i) == cells.refs[i + 1]

Top == opstack.size

\* a push: the cells written at index size, then size++
AfterPush(bits, ref) ==
    [size |-> Top + 1, cells |-> SetCell(opstack.cells, Top, bits, ref)]

\* a pop: size--, then the cells written at the new index size
AfterPop(bits, ref) ==
    [size |-> Top - 1, cells |-> SetCell(opstack.cells, Top - 1, bits, ref)]

\* the cells at index size, where the next push writes
NextBits == IF Top < MaxStackSlots THEN SlotAt(opstack.cells, Top) ELSE 0
NextRef == IF Top < MaxStackSlots THEN RefAt(opstack.cells, Top) ELSE EmptyRef

\* the cells of the top entry
KeepBits == IF Top > 0 THEN SlotAt(opstack.cells, Top - 1) ELSE 0
KeepRef == IF Top > 0 THEN RefAt(opstack.cells, Top - 1) ELSE EmptyRef

\* PushInt, PushLong, PushSlot: the reference cell cleared, the bits written
PushInt ==
    \E val \in IntValues :
        /\ Top < MaxStackSlots
        /\ opstack' = AfterPush(val, EmptyRef)
        /\ wrote' = [wrote EXCEPT !.stack[Top + 1] = "primitive"]
        /\ UNCHANGED locals
        /\ UNCHANGED notSlotVars

PushLong ==
    \E val \in IntValues :
        /\ Top < MaxStackSlots
        /\ opstack' = AfterPush(val, EmptyRef)
        /\ wrote' = [wrote EXCEPT !.stack[Top + 1] = "primitive"]
        /\ UNCHANGED locals
        /\ UNCHANGED notSlotVars

PushSlot ==
    \E val \in IntValues :
        /\ Top < MaxStackSlots
        /\ opstack' = AfterPush(val, EmptyRef)
        /\ wrote' = [wrote EXCEPT !.stack[Top + 1] = "primitive"]
        /\ UNCHANGED locals
        /\ UNCHANGED notSlotVars

\* PushFloat, PushDouble: the bits written, the reference cell left as it is
PushFloat ==
    \E val \in FloatValues :
        /\ Top < MaxStackSlots
        /\ opstack' = AfterPush(Float32bits(val), NextRef)
        /\ wrote' = [wrote EXCEPT !.stack[Top + 1] = "primitive"]
        /\ UNCHANGED locals
        /\ UNCHANGED notSlotVars

PushDouble ==
    \E val \in DoubleValues :
        /\ Top < MaxStackSlots
        /\ opstack' = AfterPush(Float64bits(val), NextRef)
        /\ wrote' = [wrote EXCEPT !.stack[Top + 1] = "primitive"]
        /\ UNCHANGED locals
        /\ UNCHANGED notSlotVars

\* PushRef: the bits zeroed, the reference written
PushRef ==
    \E val \in SlotRefs \cup {EmptyRef} :
        /\ Top < MaxStackSlots
        /\ opstack' = AfterPush(0, val)
        /\ wrote' = [wrote EXCEPT !.stack[Top + 1] = "reference"]
        /\ UNCHANGED locals
        /\ UNCHANGED notSlotVars

\* PopInt, PopLong, PopSlot, Pop: the reference cell cleared, the bits kept
PopInt ==
    /\ Top > 0
    /\ opstack' = AfterPop(KeepBits, EmptyRef)
    /\ UNCHANGED <<locals, wrote>>
    /\ UNCHANGED notSlotVars

PopLong ==
    /\ Top > 0
    /\ opstack' = AfterPop(KeepBits, EmptyRef)
    /\ UNCHANGED <<locals, wrote>>
    /\ UNCHANGED notSlotVars

PopSlot ==
    /\ Top > 0
    /\ opstack' = AfterPop(KeepBits, EmptyRef)
    /\ UNCHANGED <<locals, wrote>>
    /\ UNCHANGED notSlotVars

Pop ==
    /\ Top > 0
    /\ opstack' = AfterPop(KeepBits, EmptyRef)
    /\ UNCHANGED <<locals, wrote>>
    /\ UNCHANGED notSlotVars

\* PopFloat, PopDouble: only size--
PopFloat ==
    /\ Top > 0
    /\ opstack' = AfterPop(KeepBits, KeepRef)
    /\ UNCHANGED <<locals, wrote>>
    /\ UNCHANGED notSlotVars

PopDouble ==
    /\ Top > 0
    /\ opstack' = AfterPop(KeepBits, KeepRef)
    /\ UNCHANGED <<locals, wrote>>
    /\ UNCHANGED notSlotVars

\* PopRef: both cells cleared
PopRef ==
    /\ Top > 0
    /\ opstack' = AfterPop(0, EmptyRef)
    /\ UNCHANGED <<locals, wrote>>
    /\ UNCHANGED notSlotVars

\* Dup: both cells of the top copied to index size
Dup ==
    /\ Top > 0
    /\ Top < MaxStackSlots
    /\ opstack' = [size |-> Top + 1,
                   cells |-> SetCell(opstack.cells, Top, KeepBits, KeepRef)]
    /\ wrote' = [wrote EXCEPT !.stack[Top + 1] = wrote.stack[Top]]
    /\ UNCHANGED locals
    /\ UNCHANGED notSlotVars

\* Swap: both cells of the top two entries exchanged
StackSwap ==
    /\ Top > 1
    /\ opstack' = [opstack EXCEPT !.cells =
           SetCell(SetCell(opstack.cells, Top - 1, SlotAt(opstack.cells, Top - 2),
                           RefAt(opstack.cells, Top - 2)),
                   Top - 2, SlotAt(opstack.cells, Top - 1), RefAt(opstack.cells, Top - 1))]
    /\ wrote' = [wrote EXCEPT !.stack[Top] = wrote.stack[Top - 1],
                              !.stack[Top - 1] = wrote.stack[Top]]
    /\ UNCHANGED locals
    /\ UNCHANGED notSlotVars

\* Clear: size = 0, no cell touched
Clear ==
    /\ opstack' = [opstack EXCEPT !.size = 0]
    /\ UNCHANGED <<locals, wrote>>
    /\ UNCHANGED notSlotVars

LocalIndexes == 0..(MaxLocalSlots - 1)

\* SetInt, SetLong: the bits written, the reference cell cleared
SetInt ==
    \E index \in LocalIndexes, val \in IntValues :
        /\ locals' = SetCell(locals, index, val, EmptyRef)
        /\ wrote' = [wrote EXCEPT !.locals[index + 1] = "primitive"]
        /\ UNCHANGED opstack
        /\ UNCHANGED notSlotVars

SetLong ==
    \E index \in LocalIndexes, val \in IntValues :
        /\ locals' = SetCell(locals, index, val, EmptyRef)
        /\ wrote' = [wrote EXCEPT !.locals[index + 1] = "primitive"]
        /\ UNCHANGED opstack
        /\ UNCHANGED notSlotVars

\* SetSlot: the bits written, the reference cell left as it is
SetSlot ==
    \E index \in LocalIndexes, val \in IntValues :
        /\ locals' = SetCell(locals, index, val, RefAt(locals, index))
        /\ wrote' = [wrote EXCEPT !.locals[index + 1] = "primitive"]
        /\ UNCHANGED opstack
        /\ UNCHANGED notSlotVars

\* SetRef: the reference written, the bits zeroed
SetRef ==
    \E index \in LocalIndexes, val \in SlotRefs \cup {EmptyRef} :
        /\ locals' = SetCell(locals, index, 0, val)
        /\ wrote' = [wrote EXCEPT !.locals[index + 1] = "reference"]
        /\ UNCHANGED opstack
        /\ UNCHANGED notSlotVars

NextSlots ==
    \/ PushInt \/ PopInt \/ PushLong \/ PopLong
    \/ PushFloat \/ PopFloat \/ PushDouble \/ PopDouble
    \/ PushRef \/ PopRef \/ PushSlot \/ PopSlot
    \/ Pop \/ Dup \/ StackSwap \/ Clear
    \/ SetInt \/ SetLong \/ SetSlot \/ SetRef

(* ------------------------------------------------------------------ *)
(* Method descriptors: countArgs and parseArgTypes as calls            *)
(* ------------------------------------------------------------------ *)

\* descriptors of the calls declare up to MaxParams parameters
MaxParams == 2

DescriptorQueries ==
    { [kind |-> "descriptor", params |-> params, descriptor |-> Descriptor(params)] :
        params \in UNION { [1..n -> ParamTypes] : n \in 0..MaxParams } }

NotCounted == [counted |-> FALSE, count |-> -1, parsed |-> FALSE, types |-> <<>>]

DescriptorInit ==
    /\ query \in DescriptorQueries
    /\ answer = NotCounted

\* a call of countArgs(descriptor)
CallCountArgs ==
    /\ query.kind = "descriptor"
    /\ ~answer.counted
    /\ answer' = [answer EXCEPT !.counted = TRUE, !.count = countArgs(query.descriptor)]
    /\ UNCHANGED query
    /\ UNCHANGED notCallVars

\* a call of parseArgTypes(descriptor)
CallParseArgTypes ==
    /\ query.kind = "descriptor"
    /\ ~answer.parsed
    /\ answer' = [answer EXCEPT !.parsed = TRUE, !.types = parseArgTypes(query.descriptor)]
    /\ UNCHANGED query
    /\ UNCHANGED notCallVars

NextDescriptor ==
    \/ CallCountArgs
    \/ CallParseArgTypes

(* ------------------------------------------------------------------ *)
(* Calls and returns between frames (instructions_invoke.go,          *)
(* instructions_load.go, instructions_control.go)                     *)
(* ------------------------------------------------------------------ *)

\* a method without handlers: descriptor, max_stack, max_locals and code
Body(desc, maxStack, maxLocals, code) ==
    [desc |-> desc, maxStack |-> maxStack, maxLocals |-> maxLocals, code |-> code,
     table |-> <<>>]

\* an invoke instruction with the constant-pool index of its Methodref
Invoke(op, entry) == <<op, 0, CpIndex(entry)>>

NewOf(className) == <<OP_NEW, 0, CpIndex(CpClass(className))>>

\* the class: main, and one more method m, the one main calls
CallProgram(mainBody, m, body) ==
    [x \in Methods |-> IF x = "main" THEN mainBody ELSE IF x = m THEN body ELSE FallOff]

IntArgs == {<<ICONST_0>>, <<ICONST_1>>}
LongArgs == {<<LCONST_0>>, <<LCONST_1>>}
RefArgs == {<<ACONST_NULL>>, NewOf(MainClass)}

\* static int helper(int): iload_0, ireturn
StaticInt ==
    LET d == DescriptorOf(<<<<"I">>>>, <<"I">>)
    IN  { CallProgram(Body(Descriptor(<<>>), 1, 1,
                           a \o Invoke(INVOKESTATIC, CpMethod(MainClass, "helper", d))
                             \o <<POP, RETURN>>),
                      "helper", Body(d, 1, 1, <<ILOAD_0, IRETURN>>)) : a \in IntArgs }

\* static Main helper(int, Main): aload_1, areturn
StaticIntRef ==
    LET d == DescriptorOf(<<<<"I">>, ObjectType(MainClass)>>, ObjectType(MainClass))
    IN  { CallProgram(Body(Descriptor(<<>>), 2, 1,
                           a \o r \o Invoke(INVOKESTATIC, CpMethod(MainClass, "helper", d))
                             \o <<POP, RETURN>>),
                      "helper", Body(d, 1, 2, <<ALOAD_1, ARETURN>>)) :
            a \in IntArgs, r \in RefArgs }

\* static long helper(long): lload_0, lreturn; a long takes one entry and
\* one local
StaticLong ==
    LET d == DescriptorOf(<<<<"J">>>>, <<"J">>)
    IN  { CallProgram(Body(Descriptor(<<>>), 1, 1,
                           a \o Invoke(INVOKESTATIC, CpMethod(MainClass, "helper", d))
                             \o <<POP, RETURN>>),
                      "helper", Body(d, 1, 1, <<LLOAD_0, LRETURN>>)) : a \in LongArgs }

\* static void helper(int[][]), called with null
StaticGrid ==
    LET d == Descriptor(<<<<"[", "[", "I">>>>)
    IN  { CallProgram(Body(Descriptor(<<>>), 1, 1,
                           <<ACONST_NULL>>
                             \o Invoke(INVOKESTATIC, CpMethod(MainClass, "helper", d))
                             \o <<RETURN>>),
                      "helper", Body(d, 1, 1, <<ALOAD_0, POP, RETURN>>)) }

\* static void helper(int, int[][]) with a third local of its own, called
\* while main holds an int for later
StaticIntGrid ==
    LET d == Descriptor(<<<<"I">>, <<"[", "[", "I">>>>)
    IN  { CallProgram(Body(Descriptor(<<>>), 3, 1,
                           kept \o a \o <<ACONST_NULL>>
                             \o Invoke(INVOKESTATIC, CpMethod(MainClass, "helper", d))
                             \o <<RETURN>>),
                      "helper", Body(d, 1, 3, <<ILOAD_0, POP, RETURN>>)) :
            kept \in {<<>>, <<ICONST_1>>}, a \in IntArgs }

\* int run(int) called on a Main object or on null: iload_1, ireturn
VirtualInt ==
    LET d == DescriptorOf(<<<<"I">>>>, <<"I">>)
    IN  { CallProgram(Body(Descriptor(<<>>), 2, 1,
                           r \o a \o Invoke(INVOKEVIRTUAL, CpMethod(MainClass, "run", d))
                             \o <<POP, RETURN>>),
                      "run", Body(d, 1, 2, <<ILOAD_1, IRETURN>>)) :
            r \in RefArgs, a \in IntArgs }

\* private void inner(Main): invokespecial finds it in the class
SpecialFound ==
    LET d == Descriptor(<<ObjectType(MainClass)>>)
    IN  { CallProgram(Body(Descriptor(<<>>), 2, 1,
                           NewOf(MainClass) \o r
                             \o Invoke(INVOKESPECIAL, CpMethod(MainClass, "inner", d))
                             \o <<RETURN>>),
                      "inner", Body(d, 1, 2, <<ALOAD_1, POP, ALOAD_0, POP, RETURN>>)) :
            r \in RefArgs }

\* constructors that cannot be run: RuntimeException(String), Grid(int[][])
\* and Main(), and a method the class does not have
SpecialNotFound ==
    { CallProgram(Body(Descriptor(<<>>), 3, 1,
                       kept \o NewOf(target[1]) \o target[2]
                         \o Invoke(INVOKESPECIAL, target[3]) \o <<RETURN>>),
                  "inner", FallOff) :
        kept \in {<<>>, <<ICONST_1>>},
        target \in { <<RTE, <<ACONST_NULL>>,
                       CpMethod(RTE, "<init>", Descriptor(<<ObjectType("java/lang/String")>>))>>,
                     <<GridClass, <<ACONST_NULL>>,
                       CpMethod(GridClass, "<init>", Descriptor(<<<<"[", "[", "I">>>>))>>,
                     <<MainClass, <<>>, CpMethod(MainClass, "<init>", Descriptor(<<>>))>>,
                     <<MainClass, <<>>, CpMethod(MainClass, "missing", Descriptor(<<>>))>> } }

\* ExecuteMethod on a method that returns a value: no caller to push into
EntryReturns ==
    { CallProgram(Body(DescriptorOf(<<>>, <<"I">>), 1, 1, a \o <<IRETURN>>), "helper", FallOff) :
        a \in IntArgs }
    \cup { CallProgram(Body(DescriptorOf(<<>>, <<"J">>), 1, 1, a \o <<LRETURN>>),
                       "helper", FallOff) : a \in LongArgs }
    \cup { CallProgram(Body(DescriptorOf(<<>>, ObjectType(MainClass)), 1, 1, r \o <<ARETURN>>),
                       "helper", FallOff) : r \in RefArgs }

FramePrograms ==
    StaticInt \cup StaticIntRef \cup StaticLong \cup StaticGrid \cup StaticIntGrid
    \cup VirtualInt \cup SpecialFound \cup SpecialNotFound \cup EntryReturns

\* Interpreter.ExecuteMethod(class, "main", descriptor) up to its call of run()
FramesInit ==
    /\ prog \in FramePrograms
    /\ stack = <<NewFrame(1, "main")>>
    /\ nextId = 2
    /\ pendingRunnables = <<>>
    /\ elRunning = FALSE
    /\ bridge = NoBridge
    /\ runState = "running"
    /\ runErr = NoErr
    /\ lastBridge = NoBridgeReturn
    /\ lastThrow = NoThrow

NextFrames ==
    \/ RunExit
    \/ ExecConst
    \/ ExecLconst
    \/ ExecAconstNull
    \/ ExecPop
    \/ ExecReturn
    \/ ExecNew
    \/ ExecLoad
    \/ ExecValueReturn
    \/ ExecInvokeStatic
    \/ ExecInvokeVirtual
    \/ ExecInvokeSpecial


(* ------------------------------------------------------------------ *)
(* Shared structures and their locks (jvm.go, thread.go, natives.go,  *)
(* eventloop.go)                                                      *)
(* ------------------------------------------------------------------ *)

\* two goroutines, each running an interpreter on a thread of one JVM
\* (JVM.CreateThread hands every thread the JVM's classCache map)
ClassNames == {"Main", "Util"}
MonitorObjects == {"lock"}
NativeKeys == {"Fiber.spawn(ILjava/lang/String;)J"}

\* timers pushed in a run
MaxQueued == 2

Unlocked == [writer |-> NoThread, readers |-> {}]

\* nothing loaded, no goroutine inside any method
LocksIdle ==
    /\ gpc = [g \in Threads |-> [at |-> "idle", arg |-> ""]]
    /\ classMutex = Unlocked
    /\ monitorMutex = NoThread
    /\ elMu = NoThread
    /\ classCache = {}
    /\ monitorMap = {}
    /\ nativeMethods = {}
    /\ timerPushes = 0
    /\ raceFatal = FALSE

Idle == [at |-> "idle", arg |-> ""]

\* the structure a goroutine at a position is accessing, and how
Access(at) ==
    IF at = "JVM.LoadClass" THEN [structure |-> "classCache", mode |-> "write"]
    ELSE IF at = "JVM.GetClass" THEN [structure |-> "classCache", mode |-> "read"]
    ELSE IF at = "Thread.LoadClass" THEN [structure |-> "classCache", mode |-> "write"]
    ELSE IF at = "Thread.GetClass" THEN [structure |-> "classCache", mode |-> "read"]
    ELSE IF at = "GetOrCreateMonitor" THEN [structure |-> "monitors", mode |-> "write"]
    ELSE IF at = "Register" THEN [structure |-> "natives", mode |-> "write"]
    ELSE IF at = "Lookup" THEN [structure |-> "natives", mode |-> "read"]
    ELSE IF at = "SetTimeout" THEN [structure |-> "timers", mode |-> "write"]
    ELSE IF at = "PendingTimers" THEN [structure |-> "timers", mode |-> "read"]
    ELSE [structure |-> "none", mode |-> "none"]

\* another goroutine is inside an access to the same map that Go's map
\* implementation does not allow beside the access of g
MapRace(g) ==
    \E h \in Threads \ {g} :
        /\ Access(gpc[h].at).structure = Access(gpc[g].at).structure
        /\ "write" \in {Access(gpc[h].at).mode, Access(gpc[g].at).mode}

\* an unsynchronised map access returns; when it overlapped another one
\* the runtime may have noticed ("fatal error: concurrent map writes",
\* "concurrent map read and map write") or not
MapAccessEnds(g) ==
    /\ gpc' = [gpc EXCEPT ![g] = Idle]
    /\ IF MapRace(g) THEN raceFatal' \in BOOLEAN ELSE raceFatal' = FALSE

\* ---- JVM.LoadClass, JVM.GetClass: under classMutex ----

JVMLoadClassLock ==
    \E g \in Threads, name \in ClassNames :
        /\ ~raceFatal
        /\ gpc[g] = Idle
        /\ classMutex = Unlocked
        /\ classMutex' = [classMutex EXCEPT !.writer = g]
        /\ gpc' = [gpc EXCEPT ![g] = [at |-> "JVM.LoadClass", arg |-> name]]
        /\ UNCHANGED <<monitorMutex, elMu, classCache, monitorMap, nativeMethods, timerPushes,
                       raceFatal>>
        /\ UNCHANGED notLockVars

JVMLoadClassStore ==
    \E g \in Threads :
        /\ ~raceFatal
        /\ gpc[g].at = "JVM.LoadClass"
        /\ classCache' = classCache \cup {gpc[g].arg}
        /\ classMutex' = Unlocked
        /\ MapAccessEnds(g)
        /\ UNCHANGED <<monitorMutex, elMu, monitorMap, nativeMethods, timerPushes>>
        /\ UNCHANGED notLockVars

JVMGetClassRLock ==
    \E g \in Threads, name \in ClassNames :
        /\ ~raceFatal
        /\ gpc[g] = Idle
        /\ classMutex.writer = NoThread
        /\ classMutex' = [classMutex EXCEPT !.readers = @ \cup {g}]
        /\ gpc' = [gpc EXCEPT ![g] = [at |-> "JVM.GetClass", arg |-> name]]
        /\ UNCHANGED <<monitorMutex, elMu, classCache, monitorMap, nativeMethods, timerPushes,
                       raceFatal>>
        /\ UNCHANGED notLockVars

JVMGetClassRead ==
    \E g \in Threads :
        /\ ~raceFatal
        /\ gpc[g].at = "JVM.GetClass"
        /\ classMutex' = [classMutex EXCEPT !.readers = @ \ {g}]
        /\ MapAccessEnds(g)
        /\ UNCHANGED <<monitorMutex, elMu, classCache, monitorMap, nativeMethods, timerPushes>>
        /\ UNCHANGED notLockVars

\* ---- Thread.LoadClass, Thread.GetClass: the map itself, no lock ----

ThreadLoadClassBegin ==
    \E g \in Threads, name \in ClassNames :
        /\ ~raceFatal
        /\ gpc[g] = Idle
        /\ gpc' = [gpc EXCEPT ![g] = [at |-> "Thread.LoadClass", arg |-> name]]
        /\ UNCHANGED <<classMutex, monitorMutex, elMu, classCache, monitorMap, nativeMethods,
                       timerPushes, raceFatal>>
        /\ UNCHANGED notLockVars

ThreadLoadClassStore ==
    \E g \in Threads :
        /\ ~raceFatal
        /\ gpc[g].at = "Thread.LoadClass"
        /\ classCache' = classCache \cup {gpc[g].arg}
        /\ MapAccessEnds(g)
        /\ UNCHANGED <<classMutex, monitorMutex, elMu, monitorMap, nativeMethods, timerPushes>>
        /\ UNCHANGED notLockVars

ThreadGetClassBegin ==
    \E g \in Threads, name \in ClassNames :
        /\ ~raceFatal
        /\ gpc[g] = Idle
        /\ gpc' = [gpc EXCEPT ![g] = [at |-> "Thread.GetClass", arg |-> name]]
        /\ UNCHANGED <<classMutex, monitorMutex, elMu, classCache, monitorMap, nativeMethods,
                       timerPushes, raceFatal>>
        /\ UNCHANGED notLockVars

ThreadGetClassRead ==
    \E g \in Threads :
        /\ ~raceFatal
        /\ gpc[g].at = "Thread.GetClass"
        /\ MapAccessEnds(g)
        /\ UNCHANGED <<classMutex, monitorMutex, elMu, classCache, monitorMap, nativeMethods,
                       timerPushes>>
        /\ UNCHANGED notLockVars

\* ---- JVM.GetOrCreateMonitor: under monitorMutex ----

GetOrCreateMonitorLock ==
    \E g \in Threads, obj \in MonitorObjects :
        /\ ~raceFatal
        /\ gpc[g] = Idle
        /\ monitorMutex = NoThread
        /\ monitorMutex' = g
        /\ gpc' = [gpc EXCEPT ![g] = [at |-> "GetOrCreateMonitor", arg |-> obj]]
        /\ UNCHANGED <<classMutex, elMu, classCache, monitorMap, nativeMethods, timerPushes,
                       raceFatal>>
        /\ UNCHANGED notLockVars

GetOrCreateMonitorStore ==
    \E g \in Threads :
        /\ ~raceFatal
        /\ gpc[g].at = "GetOrCreateMonitor"
        /\ monitorMap' = monitorMap \cup {gpc[g].arg}
        /\ monitorMutex' = NoThread
        /\ MapAccessEnds(g)
        /\ UNCHANGED <<classMutex, elMu, classCache, nativeMethods, timerPushes>>
        /\ UNCHANGED notLockVars

\* ---- NativeRegistry.Register, Lookup: the map itself, no lock ----

RegisterBegin ==
    \E g \in Threads, key \in NativeKeys :
        /\ ~raceFatal
        /\ gpc[g] = Idle
        /\ gpc' = [gpc EXCEPT ![g] = [at |-> "Register", arg |-> key]]
        /\ UNCHANGED <<classMutex, monitorMutex, elMu, classCache, monitorMap, nativeMethods,
                       timerPushes, raceFatal>>
        /\ UNCHANGED notLockVars

RegisterStore ==
    \E g \in Threads :
        /\ ~raceFatal
        /\ gpc[g].at = "Register"
        /\ nativeMethods' = nativeMethods \cup {gpc[g].arg}
        /\ MapAccessEnds(g)
        /\ UNCHANGED <<classMutex, monitorMutex, elMu, classCache, monitorMap, timerPushes>>
        /\ UNCHANGED notLockVars

LookupBegin ==
    \E g \in Threads, key \in NativeKeys :
        /\ ~raceFatal
        /\ gpc[g] = Idle
        /\ gpc' = [gpc EXCEPT ![g] = [at |-> "Lookup", arg |-> key]]
        /\ UNCHANGED <<classMutex, monitorMutex, elMu, classCache, monitorMap, nativeMethods,
                       timerPushes, raceFatal>>
        /\ UNCHANGED notLockVars

LookupRead ==
    \E g \in Threads :
        /\ ~raceFatal
        /\ gpc[g].at = "Lookup"
        /\ MapAccessEnds(g)
        /\ UNCHANGED <<classMutex, monitorMutex, elMu, classCache, monitorMap, nativeMethods,
                       timerPushes>>
        /\ UNCHANGED notLockVars

\* ---- EventLoop.SetTimeout, PendingTimers: under el.mu ----

SetTimeoutLock ==
    \E g \in Threads :
        /\ ~raceFatal
        /\ gpc[g] = Idle
        /\ timerPushes < MaxQueued
        /\ elMu = NoThread
        /\ elMu' = g
        /\ gpc' = [gpc EXCEPT ![g] = [at |-> "SetTimeout", arg |-> ""]]
        /\ UNCHANGED <<classMutex, monitorMutex, classCache, monitorMap, nativeMethods,
                       timerPushes, raceFatal>>
        /\ UNCHANGED notLockVars

SetTimeoutPush ==
    \E g \in Threads :
        /\ ~raceFatal
        /\ gpc[g].at = "SetTimeout"
        /\ timerPushes' = timerPushes + 1
        /\ elMu' = NoThread
        /\ MapAccessEnds(g)
        /\ UNCHANGED <<classMutex, monitorMutex, classCache, monitorMap, nativeMethods>>
        /\ UNCHANGED notLockVars

PendingTimersLock ==
    \E g \in Threads :
        /\ ~raceFatal
        /\ gpc[g] = Idle
        /\ elMu = NoThread
        /\ elMu' = g
        /\ gpc' = [gpc EXCEPT ![g] = [at |-> "PendingTimers", arg |-> ""]]
        /\ UNCHANGED <<classMutex, monitorMutex, classCache, monitorMap, nativeMethods,
                       timerPushes, raceFatal>>
        /\ UNCHANGED notLockVars

PendingTimersRead ==
    \E g \in Threads :
        /\ ~raceFatal
        /\ gpc[g].at = "PendingTimers"
        /\ elMu' = NoThread
        /\ MapAccessEnds(g)
        /\ UNCHANGED <<classMutex, monitorMutex, classCache, monitorMap, nativeMethods,
                       timerPushes>>
        /\ UNCHANGED notLockVars

NextLocks ==
    \/ JVMLoadClassLock
    \/ JVMLoadClassStore
    \/ JVMGetClassRLock
    \/ JVMGetClassRead
    \/ ThreadLoadClassBegin
    \/ ThreadLoadClassStore
    \/ ThreadGetClassBegin
    \/ ThreadGetClassRead
    \/ GetOrCreateMonitorLock
    \/ GetOrCreateMonitorStore
    \/ RegisterBegin
    \/ RegisterStore
    \/ LookupBegin
    \/ LookupRead
    \/ SetTimeoutLock
    \/ SetTimeoutPush
    \/ PendingTimersLock
    \/ PendingTimersRead


(* ------------------------------------------------------------------ *)
(* Class files: classfile.Parse (classfile.go, constant_pool.go,      *)
(* reader.go)                                                         *)
(* ------------------------------------------------------------------ *)

\* constant-pool tags
CONSTANT_Utf8 == 1
CONSTANT_Integer == 3
CONSTANT_Float == 4
CONSTANT_Long == 5
CONSTANT_Double == 6
CONSTANT_Class == 7
CONSTANT_String == 8
CONSTANT_Fieldref == 9
CONSTANT_Methodref == 10
CONSTANT_InterfaceMethodref == 11
CONSTANT_NameAndType == 12
CONSTANT_MethodHandle == 15
CONSTANT_MethodType == 16
CONSTANT_InvokeDynamic == 18

\* the tags readConstantInfo has a case for
KnownTags ==
    { CONSTANT_Utf8, CONSTANT_Integer, CONSTANT_Float, CONSTANT_Long, CONSTANT_Double,
      CONSTANT_Class, CONSTANT_String, CONSTANT_Fieldref, CONSTANT_Methodref,
      CONSTANT_InterfaceMethodref, CONSTANT_NameAndType, CONSTANT_MethodHandle,
      CONSTANT_MethodType, CONSTANT_InvokeDynamic }

\* the bytes readConstantInfo reads after the tag (after the length, for
\* a Utf8 entry)
ConstantSize(tag) ==
    IF tag \in {CONSTANT_Integer, CONSTANT_Float, CONSTANT_Fieldref, CONSTANT_Methodref,
                CONSTANT_InterfaceMethodref, CONSTANT_NameAndType, CONSTANT_InvokeDynamic}
    THEN 4
    ELSE IF tag \in {CONSTANT_Long, CONSTANT_Double} THEN 8
    ELSE IF tag = CONSTANT_MethodHandle THEN 3
    ELSE 2

\* ---- ClassReader: a position in the data; a read past the end panics ----

ReaderAt(pos) == [pos |-> pos, panic |-> NoErr]
OutOfRange(pos) == [pos |-> pos, panic |-> <<"panic: runtime error: index out of range">>]
UnknownTag(pos) == [pos |-> pos, panic |-> <<"panic: Unknown constant pool tag">>]

\* ReadU1, ReadU2, ReadU4 and ReadBytes move the position by n bytes
ReadN(data, r, n) ==
    IF r.panic # NoErr THEN r
    ELSE IF r.pos + n > Len(data) THEN OutOfRange(r.pos)
    ELSE ReaderAt(r.pos + n)

\* binary.BigEndian.Uint16 and Uint32 of the bytes at pos (data[pos] of
\* the Go slice is element pos + 1 here)
Uint16(data, pos) == data[pos + 1] * 256 + data[pos + 2]
Uint32(data, pos) ==
    ((data[pos + 1] * 256 + data[pos + 2]) * 256 + data[pos + 3]) * 256 + data[pos + 4]

\* ReadConstantPool's loop "for i := 1; i < count; i++"
RECURSIVE ReadConstants(_, _, _, _)
ReadConstants(data, r, i, count) ==
    IF r.panic # NoErr \/ i >= count THEN r
    ELSE IF r.pos >= Len(data) THEN OutOfRange(r.pos)
    ELSE LET tag == data[r.pos + 1]
             afterTag == ReaderAt(r.pos + 1)
             afterLength == ReadN(data, afterTag, 2)
             entry == IF tag = CONSTANT_Utf8
                      THEN IF afterLength.panic # NoErr THEN afterLength
                           ELSE ReadN(data, afterLength, Uint16(data, afterTag.pos))
                      ELSE ReadN(data, afterTag, ConstantSize(tag))
         IN  IF tag \notin KnownTags THEN UnknownTag(afterTag.pos)
             ELSE ReadConstants(data, entry,
                                IF tag \in {CONSTANT_Long, CONSTANT_Double} THEN i + 2 ELSE i + 1,
                                count)

ReadConstantPool(data, r) ==
    LET afterCount == ReadN(data, r, 2)
    IN  IF afterCount.panic # NoErr THEN afterCount
        ELSE ReadConstants(data, afterCount, 1, Uint16(data, r.pos))

\* readAttributes' loop: name index, length, that many bytes
RECURSIVE AttributesLoop(_, _, _)
AttributesLoop(data, r, count) ==
    IF r.panic # NoErr \/ count = 0 THEN r
    ELSE LET afterLength == ReadN(data, r, 6)
         IN  IF afterLength.panic # NoErr THEN afterLength
             ELSE AttributesLoop(data, ReadN(data, afterLength, Uint32(data, r.pos + 2)),
                                 count - 1)

readAttributes(data, r) ==
    LET afterCount == ReadN(data, r, 2)
    IN  IF afterCount.panic # NoErr THEN afterCount
        ELSE AttributesLoop(data, afterCount, Uint16(data, r.pos))

\* the loop of readFields and readMethods: three u2 and the attributes
RECURSIVE MembersLoop(_, _, _)
MembersLoop(data, r, count) ==
    IF r.panic # NoErr \/ count = 0 THEN r
    ELSE MembersLoop(data, readAttributes(data, ReadN(data, r, 6)), count - 1)

readMembers(data, r) ==
    LET afterCount == ReadN(data, r, 2)
    IN  IF afterCount.panic # NoErr THEN afterCount
        ELSE MembersLoop(data, afterCount, Uint16(data, r.pos))

\* ClassReader.ReadU2s
ReadU2s(data, r) ==
    LET afterCount == ReadN(data, r, 2)
    IN  IF afterCount.panic # NoErr THEN afterCount
        ELSE ReadN(data, afterCount, 2 * Uint16(data, r.pos))

\* ---- the inputs: class images, whole, cut short, or damaged ----

MagicBytes == <<202, 254, 186, 190>>
VersionBytes == <<0, 0, 0, 52>>

\* a pool count and the entries after it
PoolImages ==
    { <<0, 2, CONSTANT_Utf8, 0, 1, 65>>,
      <<0, 2, CONSTANT_Class, 0, 1>>,
      <<0, 3, CONSTANT_Long, 0, 0, 0, 0, 0, 0, 0, 1>>,
      <<0, 3, CONSTANT_Utf8, 0, 0, CONSTANT_Integer, 0, 0, 0, 1>> }

\* pools with a tag no case exists for
DamagedPools == { <<0, 2, 2, 0, 1>>, <<0, 3, CONSTANT_Class, 0, 2, 19, 0, 1>> }

HeaderBytes == <<0, 33, 0, 1, 0, 0>>
InterfaceImages == { <<0, 0>>, <<0, 1, 0, 1>> }
NoMembers == <<0, 0>>

\* no method, or one with an attribute of one byte
MethodImages == { NoMembers, <<0, 1, 0, 9, 0, 1, 0, 1, 0, 1, 0, 1, 0, 0, 0, 1, 177>> }

ImagesWith(magic, pools) ==
    { magic \o VersionBytes \o pool \o HeaderBytes \o ifs \o NoMembers \o methods \o NoMembers :
        pool \in pools, ifs \in InterfaceImages, methods \in MethodImages }

ProperPrefixes(images) ==
    { SubSeq(image, 1, n) : image \in images, n \in 0..7 }
    \cup UNION { { SubSeq(image, 1, n) : n \in 8..(Len(image) - 1) } : image \in images }

ParseQuery(data, defect) == [kind |-> "parse", data |-> data, defect |-> defect]

ParseQueries ==
    { ParseQuery(data, "none") : data \in ImagesWith(MagicBytes, PoolImages) }
    \cup { ParseQuery(data, "truncated") :
             data \in ProperPrefixes(ImagesWith(MagicBytes, PoolImages)) }
    \cup { ParseQuery(data, "magic") :
             data \in ImagesWith(<<202, 254, 186, 191>>, PoolImages)
                      \cup ImagesWith(<<0, 0, 0, 0>>, PoolImages) }
    \cup { ParseQuery(data, "tag") : data \in ImagesWith(MagicBytes, DamagedPools) }

NotParsed == [phase |-> "magic", reader |-> ReaderAt(0), outcome |-> "none", err |-> NoErr]

\* Parse(data) has made its reader
ParseInit ==
    /\ query \in ParseQueries
    /\ answer = NotParsed

\* the next field group is read: Parse goes on, or the read panicked
Decoded(r, nextPhase) ==
    /\ answer' = IF r.panic # NoErr
                 THEN [answer EXCEPT !.reader = r, !.phase = "end", !.outcome = "panic",
                                     !.err = r.panic]
                 ELSE [answer EXCEPT !.reader = r, !.phase = nextPhase]
    /\ UNCHANGED query
    /\ UNCHANGED notCallVars

\* "cf.Magic = reader.ReadU4()" and the comparison with 0xCAFEBABE
ParseMagic ==
    /\ query.kind = "parse"
    /\ answer.phase = "magic"
    /\ LET r == ReadN(query.data, answer.reader, 4)
       IN  IF r.panic = NoErr /\ SubSeq(query.data, 1, 4) # MagicBytes
           THEN /\ answer' = [answer EXCEPT !.reader = r, !.phase = "end", !.outcome = "error",
                                !.err = <<"invalid class file: bad magic number">>]
                /\ UNCHANGED query
                /\ UNCHANGED notCallVars
           ELSE Decoded(r, "version")

ParseVersion ==
    /\ query.kind = "parse"
    /\ answer.phase = "version"
    /\ Decoded(ReadN(query.data, ReadN(query.data, answer.reader, 2), 2), "pool")

ParseConstantPool ==
    /\ query.kind = "parse"
    /\ answer.phase = "pool"
    /\ Decoded(ReadConstantPool(query.data, answer.reader), "header")

\* access flags, this class, super class
ParseHeader ==
    /\ query.kind = "parse"
    /\ answer.phase = "header"
    /\ Decoded(ReadN(query.data, ReadN(query.data, ReadN(query.data, answer.reader, 2), 2), 2),
               "interfaces")

ParseInterfaces ==
    /\ query.kind = "parse"
    /\ answer.phase = "interfaces"
    /\ Decoded(ReadU2s(query.data, answer.reader), "fields")

ParseFields ==
    /\ query.kind = "parse"
    /\ answer.phase = "fields"
    /\ Decoded(readMembers(query.data, answer.reader), "methods")

ParseMethods ==
    /\ query.kind = "parse"
    /\ answer.phase = "methods"
    /\ Decoded(readMembers(query.data, answer.reader), "attributes")

ParseAttributes ==
    /\ query.kind = "parse"
    /\ answer.phase = "attributes"
    /\ Decoded(readAttributes(query.data, answer.reader), "return")

\* "return cf, nil"
ParseReturn ==
    /\ query.kind = "parse"
    /\ answer.phase = "return"
    /\ answer' = [answer EXCEPT !.phase = "end", !.outcome = "class"]
    /\ UNCHANGED query
    /\ UNCHANGED notCallVars

NextParse ==
    \/ ParseMagic
    \/ ParseVersion
    \/ ParseConstantPool
    \/ ParseHeader
    \/ ParseInterfaces
    \/ ParseFields
    \/ ParseMethods
    \/ ParseAttributes
    \/ ParseReturn


(* ------------------------------------------------------------------ *)
(* Constant pool: ReadConstantPool and the accessors                  *)
(* (constant_pool.go)                                                 *)
(* ------------------------------------------------------------------ *)

\* entries of the pools decoded in a run
MaxPoolEntries == 3

\* a decoded entry: the tag, and the fields readConstantInfo fills (Value
\* of a Utf8 entry, the two halves of a Long or Double, the Value of an
\* Integer, NameIndex or StringIndex)
PoolEntry(tag, text, high, low) == [tag |-> tag, text |-> text, high |-> high, low |-> low]

\* the nil interface value of a pool index nothing was stored at
NoEntry == PoolEntry(0, <<>>, 0, 0)

\* constants a class file holds
EntryChoices ==
    { PoolEntry(CONSTANT_Utf8, <<65>>, 0, 0),
      PoolEntry(CONSTANT_Integer, <<>>, 0, 7),
      PoolEntry(CONSTANT_Long, <<>>, 0, 1),
      PoolEntry(CONSTANT_Double, <<>>, 1, 0),
      PoolEntry(CONSTANT_Class, <<>>, 0, 1) }

\* the bytes of one cp_info structure
EntryBytes(e) ==
    IF e.tag = CONSTANT_Utf8 THEN <<e.tag, 0, Len(e.text)>> \o e.text
    ELSE IF e.tag = CONSTANT_Integer THEN <<e.tag, 0, 0, 0, e.low>>
    ELSE IF e.tag \in {CONSTANT_Long, CONSTANT_Double}
         THEN <<e.tag, 0, 0, 0, e.high, 0, 0, 0, e.low>>
    ELSE <<e.tag, 0, e.low>>

\* the pool indices an entry takes in a class file: two for the 8-byte
\* constants
IndicesTaken(e) == IF e.tag \in {CONSTANT_Long, CONSTANT_Double} THEN 2 ELSE 1

RECURSIVE IndicesOf(_)
IndicesOf(entries) ==
    IF entries = <<>> THEN 0 ELSE IndicesTaken(Head(entries)) + IndicesOf(Tail(entries))

RECURSIVE BytesOf(_)
BytesOf(entries) ==
    IF entries = <<>> THEN <<>> ELSE EntryBytes(Head(entries)) \o BytesOf(Tail(entries))

\* constant_pool_count and the cp_info structures of a class file
PoolImage(entries) == <<0, IndicesOf(entries) + 1>> \o BytesOf(entries)

PoolQueries ==
    { [kind |-> "pool", entries |-> entries, data |-> PoolImage(entries)] :
        entries \in UNION { [1..n -> EntryChoices] : n \in 0..MaxPoolEntries } }

\* a changed loop: every constant takes two indices
IndexAfter_TwoSlots(tag, i) == i + 2

\* "i++" of the loop, and the second "i++" after a Long or Double
IndexAfter(tag, i) == IF tag \in {CONSTANT_Long, CONSTANT_Double} THEN i + 2 ELSE i + 1

\* readConstantInfo for the tags of the pools above: the entry at pos
ConstantAt(data, pos) ==
    LET tag == data[pos + 1]
    IN  IF tag = CONSTANT_Utf8
        THEN PoolEntry(tag, SubSeq(data, pos + 4, pos + 3 + Uint16(data, pos + 1)), 0, 0)
        ELSE IF tag = CONSTANT_Integer THEN PoolEntry(tag, <<>>, 0, Uint32(data, pos + 1))
        ELSE IF tag \in {CONSTANT_Long, CONSTANT_Double}
             THEN PoolEntry(tag, <<>>, Uint32(data, pos + 1), Uint32(data, pos + 5))
        ELSE PoolEntry(tag, <<>>, 0, Uint16(data, pos + 1))

\* the position after the entry at pos
AfterConstant(data, pos) ==
    LET tag == data[pos + 1]
    IN  IF tag = CONSTANT_Utf8 THEN pos + 3 + Uint16(data, pos + 1)
        ELSE pos + 1 + ConstantSize(tag)

\* ReadConstantPool's loop from index i on: cp[i] = readConstantInfo(...)
\* (cp[i] of the Go slice is element i + 1 of the sequence)
RECURSIVE StoreConstants(_, _, _, _)
StoreConstants(cp, data, pos, i) ==
    IF ~(i < Len(cp)) THEN cp
    ELSE StoreConstants([cp EXCEPT ![i + 1] = ConstantAt(data, pos)], data,
                        AfterConstant(data, pos), IndexAfter(data[pos + 1], i))

\* ReadConstantPool: make(ConstantPool, count), then the loop from 1
DecodedPool(data) ==
    StoreConstants([k \in 1..Uint16(data, 0) |-> NoEntry], data, 2, 1)

\* ConstantPool.GetUtf8
GetUtf8(cp, index) ==
    IF cp[index + 1].tag = CONSTANT_Utf8 THEN cp[index + 1].text ELSE <<>>

\* ConstantPool.GetClassName on a pool value
ClassNameAt(cp, index) ==
    IF cp[index + 1].tag = CONSTANT_Class THEN GetUtf8(cp, cp[index + 1].low) ELSE <<>>

NotDecoded == [phase |-> "encoded", cp |-> <<>>, index |-> -1, utf8 |-> <<>>, className |-> <<>>]

PoolInit ==
    /\ query \in PoolQueries
    /\ answer = NotDecoded

\* the call ReadConstantPool(reader) of Parse
CallReadConstantPool ==
    /\ query.kind = "pool"
    /\ answer.phase = "encoded"
    /\ answer' = [answer EXCEPT !.phase = "decoded", !.cp = DecodedPool(query.data)]
    /\ UNCHANGED query
    /\ UNCHANGED notCallVars

\* calls cp.GetUtf8(index) and cp.GetClassName(index) with an index of the pool
CallAccessors ==
    /\ query.kind = "pool"
    /\ answer.phase = "decoded"
    /\ \E index \in 0..(Len(answer.cp) - 1) :
          answer' = [answer EXCEPT !.index = index,
                                   !.utf8 = GetUtf8(answer.cp, index),
                                   !.className = ClassNameAt(answer.cp, index)]
    /\ UNCHANGED query
    /\ UNCHANGED notCallVars

NextPool ==
    \/ CallReadConstantPool
    \/ CallAccessors


(* ------------------------------------------------------------------ *)
(* Monitor registry: JVM.GetOrCreateMonitor under MONITORENTER and    *)
(* MONITOREXIT (jvm.go, instructions.go)                              *)
(* ------------------------------------------------------------------ *)

\* the references the goroutines synchronise on (map keys of JVM.monitors)
LockRefs == {"lockA", "lockB"}

\* monitors that can be made in a run
MaxMonitors == 3

NoMonitor == 0
MonitorIds == 1..MaxMonitors

RegIdle == [at |-> "idle", op |-> "none", obj |-> "", mon |-> NoMonitor]

\* no monitor made, no goroutine inside an instruction
RegistryIdle ==
    /\ regPc = [g \in Threads |-> RegIdle]
    /\ monitors = [r \in LockRefs |-> NoMonitor]
    /\ allocated = 0
    /\ regMutex = NoThread
    /\ regOwner = [m \in MonitorIds |-> NoThread]
    /\ regCount = [m \in MonitorIds |-> 0]
    /\ enteredWith = [g \in Threads |-> [r \in LockRefs |-> <<>>]]
    /\ handedOut = {}

\* a lookup that never finds the entry
LookupMonitor_Miss(map, obj) == NoMonitor

\* monitor, exists := jvm.monitors[obj]
LookupMonitor(map, obj) == map[obj]

\* MONITORENTER up to jvm.monitorMutex.Lock() of GetOrCreateMonitor
ExecMonitorEnter ==
    \E g \in Threads, obj \in LockRefs :
        /\ regPc[g] = RegIdle
        /\ Len(enteredWith[g][obj]) < MaxEntry
        /\ regMutex = NoThread
        /\ regMutex' = g
        /\ regPc' = [regPc EXCEPT ![g] = [at |-> "GetOrCreateMonitor", op |-> "monitorenter",
                                          obj |-> obj, mon |-> NoMonitor]]
        /\ UNCHANGED <<monitors, allocated, regOwner, regCount, enteredWith, handedOut>>
        /\ UNCHANGED notRegistryVars

\* MONITOREXIT up to jvm.monitorMutex.Lock() of GetOrCreateMonitor
ExecMonitorExit ==
    \E g \in Threads, obj \in LockRefs :
        /\ regPc[g] = RegIdle
        /\ regMutex = NoThread
        /\ regMutex' = g
        /\ regPc' = [regPc EXCEPT ![g] = [at |-> "GetOrCreateMonitor", op |-> "monitorexit",
                                          obj |-> obj, mon |-> NoMonitor]]
        /\ UNCHANGED <<monitors, allocated, regOwner, regCount, enteredWith, handedOut>>
        /\ UNCHANGED notRegistryVars

\* GetOrCreateMonitor: the entry exists and is returned; the deferred
\* Unlock runs
GetOrCreateMonitorFound ==
    \E g \in Threads :
        /\ regPc[g].at = "GetOrCreateMonitor"
        /\ LookupMonitor(monitors, regPc[g].obj) # NoMonitor
        /\ regPc' = [regPc EXCEPT ![g].at = "have",
                                  ![g].mon = LookupMonitor(monitors, regPc[g].obj)]
        /\ handedOut' = handedOut \cup {<<regPc[g].obj, LookupMonitor(monitors, regPc[g].obj)>>}
        /\ regMutex' = NoThread
        /\ UNCHANGED <<monitors, allocated, regOwner, regCount, enteredWith>>
        /\ UNCHANGED notRegistryVars

\* GetOrCreateMonitor: no entry; a monitor is made, stored and returned
GetOrCreateMonitorNew ==
    \E g \in Threads :
        /\ regPc[g].at = "GetOrCreateMonitor"
        /\ LookupMonitor(monitors, regPc[g].obj) = NoMonitor
        /\ allocated < MaxMonitors
        /\ allocated' = allocated + 1
        /\ monitors' = [monitors EXCEPT ![regPc[g].obj] = allocated + 1]
        /\ regPc' = [regPc EXCEPT ![g].at = "have", ![g].mon = allocated + 1]
        /\ handedOut' = handedOut \cup {<<regPc[g].obj, allocated + 1>>}
        /\ regMutex' = NoThread
        /\ UNCHANGED <<regOwner, regCount, enteredWith>>
        /\ UNCHANGED notRegistryVars

\* monitor.Enter(i.thread) on the monitor returned: waits while another
\* thread owns it
RegistryEnter ==
    \E g \in Threads :
        /\ regPc[g].at = "have"
        /\ regPc[g].op = "monitorenter"
        /\ regOwner[regPc[g].mon] \in {NoThread, g}
        /\ regOwner' = [regOwner EXCEPT ![regPc[g].mon] = g]
        /\ regCount' = [regCount EXCEPT ![regPc[g].mon] = @ + 1]
        /\ enteredWith' = [enteredWith EXCEPT ![g][regPc[g].obj] = Append(@, regPc[g].mon)]
        /\ regPc' = [regPc EXCEPT ![g] = RegIdle]
        /\ UNCHANGED <<monitors, allocated, regMutex, handedOut>>
        /\ UNCHANGED notRegistryVars

\* monitor.Exit(i.thread) on the monitor returned: an error unless the
\* thread owns it
RegistryExit ==
    \E g \in Threads :
        /\ regPc[g].at = "have"
        /\ regPc[g].op = "monitorexit"
        /\ IF regOwner[regPc[g].mon] # g
           THEN UNCHANGED <<regOwner, regCount, enteredWith>>
           ELSE /\ regCount' = [regCount EXCEPT ![regPc[g].mon] = @ - 1]
                /\ regOwner' = [regOwner EXCEPT ![regPc[g].mon] =
                                   IF regCount[regPc[g].mon] = 1 THEN NoThread ELSE g]
                /\ enteredWith' = [enteredWith EXCEPT ![g][regPc[g].obj] =
                                      IF Len(@) > 0 THEN SubSeq(@, 1, Len(@) - 1) ELSE @]
        /\ regPc' = [regPc EXCEPT ![g] = RegIdle]
        /\ UNCHANGED <<monitors, allocated, regMutex, handedOut>>
        /\ UNCHANGED notRegistryVars

NextRegistry ==
    \/ ExecMonitorEnter
    \/ ExecMonitorExit
    \/ GetOrCreateMonitorFound
    \/ GetOrCreateMonitorNew
    \/ RegistryEnter
    \/ RegistryExit



(* ------------------------------------------------------------------ *)
(* Event loop: several goroutines calling Run, callbacks calling the  *)
(* loop (eventloop.go)                                                *)
(* ------------------------------------------------------------------ *)

\* the goroutines that call Run or RunFor
NumRunners == 2
Runners == 1..NumRunners

\* the stopped channels a run makes, the tasks queued and the timers due
MaxRuns == 2
MaxPending == 1
MaxDue == 1

\* the methods of the loop a callback calls
LoopCalls == {"SetTimeout", "SetInterval", "Stop", "IsRunning", "PendingTimers"}

RunIdle == [at |-> "idle", seen |-> 0, via |-> "none", ctx |-> "none", call |-> "none"]

\* NewEventLoop: not running, the first stopped channel, nothing queued
ReentryIdle ==
    /\ loopRunning = FALSE
    /\ loopStopped = 0
    /\ closedChans = {}
    /\ loopMu = NoThread
    /\ runPc = [g \in Runners |-> RunIdle]
    /\ queuedTasks = 0
    /\ dueTimers = 0

\* the goroutine is inside an iteration of Run's loop, past the test of
\* el.stopped at its head
InLoopBody(g) == runPc[g].at \notin {"idle", "top"}

\* the value a read of the field el.stopped made without el.mu can yield:
\* the channel the field holds, or the one the goroutine knew when it last
\* held el.mu (the write in Run is not ordered with this read)
StoppedRead(g) == {loopStopped, runPc[g].seen}

\* Stop's body under el.mu
StopEffect ==
    IF loopRunning
    THEN /\ loopRunning' = FALSE
         /\ closedChans' = closedChans \cup {loopStopped}
    ELSE UNCHANGED <<loopRunning, closedChans>>

\* Run (directly or in the goroutine RunFor starts) up to its loop: it
\* returns at once when the loop is marked running
RunCall ==
    \E g \in Runners, via \in {"Run", "RunFor"} :
        /\ runPc[g].at = "idle"
        /\ loopMu = NoThread
        /\ IF loopRunning
           THEN UNCHANGED <<loopRunning, loopStopped, runPc>>
           ELSE /\ loopStopped < MaxRuns
                /\ loopRunning' = TRUE
                /\ loopStopped' = loopStopped + 1
                /\ runPc' = [runPc EXCEPT ![g] = [RunIdle EXCEPT !.at = "top",
                                                     !.seen = loopStopped + 1,
                                                     !.via = via]]
        /\ UNCHANGED <<closedChans, loopMu, queuedTasks, dueTimers>>
        /\ UNCHANGED notReentryVars

\* the select at the head of the loop: return if el.stopped is closed
CheckStopped ==
    \E g \in Runners : \E ch \in StoppedRead(g) :
        /\ runPc[g].at = "top"
        /\ runPc' = [runPc EXCEPT ![g] = IF ch \in closedChans THEN RunIdle
                                         ELSE [@ EXCEPT !.at = "fire"]]
        /\ UNCHANGED <<loopRunning, loopStopped, closedChans, loopMu, queuedTasks, dueTimers>>
        /\ UNCHANGED notReentryVars

\* fireReadyTimers: el.mu.Lock(), kept until the method returns
FireReadyTimersLock ==
    \E g \in Runners :
        /\ runPc[g].at = "fire"
        /\ loopMu = NoThread
        /\ loopMu' = g
        /\ runPc' = [runPc EXCEPT ![g].at = "timers", ![g].seen = loopStopped]
        /\ UNCHANGED <<loopRunning, loopStopped, closedChans, queuedTasks, dueTimers>>
        /\ UNCHANGED notReentryVars

\* fireReadyTimers' loop: pop a due timer and call its callback, or, with
\* none due, return (the deferred Unlock)
FireNextTimer ==
    \E g \in Runners :
        /\ runPc[g].at = "timers"
        /\ IF dueTimers > 0
           THEN /\ dueTimers' = dueTimers - 1
                /\ runPc' = [runPc EXCEPT ![g].at = "callback", ![g].ctx = "timer"]
                /\ UNCHANGED loopMu
           ELSE /\ loopMu' = NoThread
                /\ runPc' = [runPc EXCEPT ![g].at = "select"]
                /\ UNCHANGED dueTimers
        /\ UNCHANGED <<loopRunning, loopStopped, closedChans, queuedTasks>>
        /\ UNCHANGED notReentryVars

\* the second select: a task is received and its callback called
ReceiveTask ==
    \E g \in Runners :
        /\ runPc[g].at = "select"
        /\ queuedTasks > 0
        /\ queuedTasks' = queuedTasks - 1
        /\ runPc' = [runPc EXCEPT ![g].at = "callback", ![g].ctx = "task"]
        /\ UNCHANGED <<loopRunning, loopStopped, closedChans, loopMu, dueTimers>>
        /\ UNCHANGED notReentryVars

\* the second select: el.stopped is closed and Run returns
ReceiveStopped ==
    \E g \in Runners : \E ch \in StoppedRead(g) :
        /\ runPc[g].at = "select"
        /\ ch \in closedChans
        /\ runPc' = [runPc EXCEPT ![g] = RunIdle]
        /\ UNCHANGED <<loopRunning, loopStopped, closedChans, loopMu, queuedTasks, dueTimers>>
        /\ UNCHANGED notReentryVars

\* the second select's default: under el.mu read whether timers are left;
\* with no timers and no tasks go on to finish, else sleep and loop
NothingReady ==
    \E g \in Runners : \E ch \in StoppedRead(g) :
        /\ runPc[g].at = "select"
        /\ queuedTasks = 0
        /\ ch \notin closedChans
        /\ loopMu = NoThread
        /\ runPc' = [runPc EXCEPT ![g].at = IF dueTimers = 0 THEN "finish" ELSE "top",
                                  ![g].seen = loopStopped]
        /\ UNCHANGED <<loopRunning, loopStopped, closedChans, loopMu, queuedTasks, dueTimers>>
        /\ UNCHANGED notReentryVars

\* no more work: under el.mu running is cleared, and Run returns
RunFinish ==
    \E g \in Runners :
        /\ runPc[g].at = "finish"
        /\ loopMu = NoThread
        /\ loopRunning' = FALSE
        /\ runPc' = [runPc EXCEPT ![g] = RunIdle]
        /\ UNCHANGED <<loopStopped, closedChans, loopMu, queuedTasks, dueTimers>>
        /\ UNCHANGED notReentryVars

\* the callback in progress calls a method of the loop, which starts with
\* el.mu.Lock()
CallbackCalls ==
    \E g \in Runners, c \in LoopCalls :
        /\ runPc[g].at = "callback"
        /\ c \in {"SetTimeout", "SetInterval"} => dueTimers < MaxDue
        /\ runPc' = [runPc EXCEPT ![g].at = "calling", ![g].call = c]
        /\ UNCHANGED <<loopRunning, loopStopped, closedChans, loopMu, queuedTasks, dueTimers>>
        /\ UNCHANGED notReentryVars

\* the method called gets el.mu, does its work, unlocks and returns to the
\* callback; sync.Mutex is not reentrant: the Lock waits while any
\* goroutine, the caller itself included, holds el.mu
CallProceeds ==
    \E g \in Runners :
        /\ runPc[g].at = "calling"
        /\ loopMu = NoThread
        /\ IF runPc[g].call \in {"SetTimeout", "SetInterval"}
           THEN /\ dueTimers' = dueTimers + 1
                /\ UNCHANGED <<loopRunning, closedChans>>
           ELSE IF runPc[g].call = "Stop"
           THEN StopEffect /\ UNCHANGED dueTimers
           ELSE UNCHANGED <<loopRunning, closedChans, dueTimers>>
        /\ runPc' = [runPc EXCEPT ![g].at = "callback", ![g].call = "none",
                                  ![g].seen = loopStopped]
        /\ UNCHANGED <<loopStopped, loopMu, queuedTasks>>
        /\ UNCHANGED notReentryVars

\* the callback returns: a timer callback into fireReadyTimers' loop, a
\* task callback to the head of Run's loop
CallbackReturns ==
    \E g \in Runners :
        /\ runPc[g].at = "callback"
        /\ runPc' = [runPc EXCEPT ![g].at = IF runPc[g].ctx = "timer" THEN "timers" ELSE "top",
                                  ![g].ctx = "none"]
        /\ UNCHANGED <<loopRunning, loopStopped, closedChans, loopMu, queuedTasks, dueTimers>>
        /\ UNCHANGED notReentryVars

\* Stop called from a goroutine outside the loop
StopCall ==
    /\ loopMu = NoThread
    /\ StopEffect
    /\ UNCHANGED <<loopStopped, loopMu, runPc, queuedTasks, dueTimers>>
    /\ UNCHANGED notReentryVars

\* RunFor's time.After fires before the Run it started is done: el.Stop()
RunForExpires ==
    \E g \in Runners :
        /\ runPc[g].via = "RunFor"
        /\ loopMu = NoThread
        /\ StopEffect
        /\ runPc' = [runPc EXCEPT ![g].via = "Run"]
        /\ UNCHANGED <<loopStopped, loopMu, queuedTasks, dueTimers>>
        /\ UNCHANGED notReentryVars

\* Submit from a goroutine outside the loop
SubmitCall ==
    /\ queuedTasks < MaxPending
    /\ queuedTasks' = queuedTasks + 1
    /\ UNCHANGED <<loopRunning, loopStopped, closedChans, loopMu, runPc, dueTimers>>
    /\ UNCHANGED notReentryVars

\* SetTimeout from a goroutine outside the loop, its deadline passing
SetTimeoutCall ==
    /\ dueTimers < MaxDue
    /\ loopMu = NoThread
    /\ dueTimers' = dueTimers + 1
    /\ UNCHANGED <<loopRunning, loopStopped, closedChans, loopMu, runPc, queuedTasks>>
    /\ UNCHANGED notReentryVars

NextReentry ==
    \/ RunCall
    \/ CheckStopped
    \/ FireReadyTimersLock
    \/ FireNextTimer
    \/ ReceiveTask
    \/ ReceiveStopped
    \/ NothingReady
    \/ RunFinish
    \/ CallbackCalls
    \/ CallProceeds
    \/ CallbackReturns
    \/ StopCall
    \/ RunForExpires
    \/ SubmitCall
    \/ SetTimeoutCall



(* ------------------------------------------------------------------ *)
(* Heap byte accounting: totalBytes against estimateSize (heap.go,    *)
(* object.go)                                                         *)
(* ------------------------------------------------------------------ *)

\* estimateSize: bytes per key of Object.FieldSlots
ObjectSlotSize == 8

\* class Node declares the reference field "next" and the int field
\* "value"; class Leaf extends Node declares no field of its own
ClassKinds == {"Node", "Leaf"}
DeclaredRefs(class) == IF class = "Node" THEN {"next"} ELSE {}
DeclaredSlots(class) == IF class = "Node" THEN {"value"} ELSE {}

NotMade == "none"

\* NewHeap, and no object made yet
SizesIdle ==
    /\ heapOf = <<>>
    /\ byteTotal = 0
    /\ lastID = 0
    /\ fieldKeys = [p \in Ptrs |-> {}]
    /\ slotKeys = [p \in Ptrs |-> {}]
    /\ created = [p \in Ptrs |-> NotMade]

\* estimateSize(obj) for an *Object, at the time of the call
SizeNow(p) ==
    ObjectBaseSize + Cardinality(fieldKeys[p]) * ObjectFieldSize
                   + Cardinality(slotKeys[p]) * ObjectSlotSize

RECURSIVE TotalOf(_, _)
TotalOf(objs, ids) ==
    IF ids = {} THEN 0
    ELSE LET id == CHOOSE k \in ids : TRUE
         IN  SizeNow(objs[id]) + TotalOf(objs, ids \ {id})

\* runtime.NewObject(class): the maps get a key per declared instance field
NewObjectCall ==
    \E p \in Ptrs, class \in ClassKinds :
        /\ created[p] = NotMade
        /\ created' = [created EXCEPT ![p] = class]
        /\ fieldKeys' = [fieldKeys EXCEPT ![p] = DeclaredRefs(class)]
        /\ slotKeys' = [slotKeys EXCEPT ![p] = DeclaredSlots(class)]
        /\ UNCHANGED <<heapOf, byteTotal, lastID>>
        /\ UNCHANGED notSizeVars

\* Heap.Alloc(obj); the collection it starts above the threshold sweeps
\* every object (GC(nil) marks nothing)
AllocCall ==
    \E p \in Ptrs :
        /\ created[p] # NotMade
        /\ lastID < MaxAllocs
        /\ lastID' = lastID + 1
        /\ LET objs == [id \in (DOMAIN heapOf) \cup {lastID + 1} |->
                            IF id = lastID + 1 THEN p ELSE heapOf[id]]
               total == byteTotal + SizeNow(p)
           IN  IF total > DefaultGCThreshold
               THEN /\ heapOf' = <<>>
                    /\ byteTotal' = total - TotalOf(objs, DOMAIN objs)
               ELSE /\ heapOf' = objs
                    /\ byteTotal' = total
        /\ UNCHANGED <<fieldKeys, slotKeys, created>>
        /\ UNCHANGED notSizeVars

\* Heap.Free(id), of an id in the heap or not
FreeCall ==
    \E id \in 1..MaxAllocs :
        /\ IF id \in DOMAIN heapOf
           THEN /\ byteTotal' = byteTotal - SizeNow(heapOf[id])
                /\ heapOf' = Delete(heapOf, id)
           ELSE UNCHANGED <<heapOf, byteTotal>>
        /\ UNCHANGED <<lastID, fieldKeys, slotKeys, created>>
        /\ UNCHANGED notSizeVars

\* Heap.GC(nil): nothing is marked, the sweep deletes every id and
\* subtracts the estimate it takes then
GCCall ==
    /\ heapOf # <<>>
    /\ heapOf' = <<>>
    /\ byteTotal' = byteTotal - TotalOf(heapOf, DOMAIN heapOf)
    /\ UNCHANGED <<lastID, fieldKeys, slotKeys, created>>
    /\ UNCHANGED notSizeVars

\* putfield of a reference field: Object.SetFieldRef(name, val)
PutFieldRef ==
    \E p \in Ptrs :
        /\ created[p] # NotMade
        /\ fieldKeys' = [fieldKeys EXCEPT ![p] = @ \cup {"next"}]
        /\ UNCHANGED <<heapOf, byteTotal, lastID, slotKeys, created>>
        /\ UNCHANGED notSizeVars

\* putfield of an int field: Object.SetFieldInt(name, val)
PutFieldInt ==
    \E p \in Ptrs :
        /\ created[p] # NotMade
        /\ slotKeys' = [slotKeys EXCEPT ![p] = @ \cup {"value"}]
        /\ UNCHANGED <<heapOf, byteTotal, lastID, fieldKeys, created>>
        /\ UNCHANGED notSizeVars

NextSizes ==
    \/ NewObjectCall
    \/ AllocCall
    \/ FreeCall
    \/ GCCall
    \/ PutFieldRef
    \/ PutFieldInt



(* ------------------------------------------------------------------ *)
(* Scheduler and fibers: Spawn, Sleep, WaitAll (scheduler.go,         *)
(* fiber.go)                                                          *)
(* ------------------------------------------------------------------ *)

\* the fibers a run spawns
NumFibers == 2
Fibers == 1..NumFibers

\* FiberState (fiber.go)
FiberReady == 0
FiberRunning == 1
FiberBlocked == 2
FiberSleeping == 3
FiberDead == 4

\* who calls Scheduler.Sleep(fiber, millis): the fiber's own task, or a
\* goroutine that holds the *Fiber Spawn returned
SleepCallers == {"task", "other"}

\* NewScheduler: no fiber spawned
FibersIdle ==
    /\ fiberState = [f \in Fibers |-> FiberReady]
    /\ taskPc = [f \in Fibers |-> "none"]
    /\ sleepCalls = [f \in Fibers |-> {}]
    /\ fiberErr = [f \in Fibers |-> FALSE]
    /\ waitAll = "idle"

\* the fiber is in Scheduler.fibers
Spawned(f) == taskPc[f] # "none"

\* Fiber.IsAlive
IsAlive(f) == fiberState[f] # FiberDead

\* Scheduler.FiberCount
FiberCount == Cardinality({f \in Fibers : Spawned(f) /\ IsAlive(f)})

\* Scheduler.Spawn up to its return: NewFiber (state Ready), the fiber
\* registered, the goroutine started
Spawn ==
    \E f \in Fibers :
        /\ ~Spawned(f)
        /\ fiberState' = [fiberState EXCEPT ![f] = FiberReady]
        /\ taskPc' = [taskPc EXCEPT ![f] = "started"]
        /\ UNCHANGED <<sleepCalls, fiberErr, waitAll>>
        /\ UNCHANGED notFiberVars

\* the goroutine of Spawn: fiber.SetState(FiberRunning), then the task
TaskBegins ==
    \E f \in Fibers :
        /\ taskPc[f] = "started"
        /\ fiberState' = [fiberState EXCEPT ![f] = FiberRunning]
        /\ taskPc' = [taskPc EXCEPT ![f] = "task"]
        /\ UNCHANGED <<sleepCalls, fiberErr, waitAll>>
        /\ UNCHANGED notFiberVars

\* the task returns or panics: the deferred function recovers, sets
\* fiber.err after a panic, and sets the state to Dead
TaskEnds ==
    \E f \in Fibers, panicked \in BOOLEAN :
        /\ taskPc[f] = "task"
        /\ "task" \notin sleepCalls[f]
        /\ fiberErr' = [fiberErr EXCEPT ![f] = panicked]
        /\ fiberState' = [fiberState EXCEPT ![f] = FiberDead]
        /\ taskPc' = [taskPc EXCEPT ![f] = "ended"]
        /\ UNCHANGED <<sleepCalls, waitAll>>
        /\ UNCHANGED notFiberVars

\* Scheduler.Sleep(fiber, millis) up to its time.Sleep
SleepBegins ==
    \E f \in Fibers, by \in SleepCallers :
        /\ Spawned(f)
        /\ by \notin sleepCalls[f]
        /\ by = "task" => taskPc[f] = "task"
        /\ fiberState' = [fiberState EXCEPT ![f] = FiberSleeping]
        /\ sleepCalls' = [sleepCalls EXCEPT ![f] = @ \cup {by}]
        /\ UNCHANGED <<taskPc, fiberErr, waitAll>>
        /\ UNCHANGED notFiberVars

\* time.Sleep is over: fiber.SetState(FiberRunning), and Sleep returns
SleepEnds ==
    \E f \in Fibers, by \in SleepCallers :
        /\ by \in sleepCalls[f]
        /\ fiberState' = [fiberState EXCEPT ![f] = FiberRunning]
        /\ sleepCalls' = [sleepCalls EXCEPT ![f] = @ \ {by}]
        /\ UNCHANGED <<taskPc, fiberErr, waitAll>>
        /\ UNCHANGED notFiberVars

\* Scheduler.WaitAll is called
WaitAllCall ==
    /\ waitAll = "idle"
    /\ waitAll' = "polling"
    /\ UNCHANGED <<fiberState, taskPc, sleepCalls, fiberErr>>
    /\ UNCHANGED notFiberVars

\* WaitAll's loop finds FiberCount() = 0 and returns
WaitAllReturns ==
    /\ waitAll = "polling"
    /\ FiberCount = 0
    /\ waitAll' = "returned"
    /\ UNCHANGED <<fiberState, taskPc, sleepCalls, fiberErr>>
    /\ UNCHANGED notFiberVars

NextFibers ==
    \/ Spawn
    \/ TaskBegins
    \/ TaskEnds
    \/ SleepBegins
    \/ SleepEnds
    \/ WaitAllCall
    \/ WaitAllReturns



(* ------------------------------------------------------------------ *)
(* Specifications                                                      *)
(* ------------------------------------------------------------------ *)

InitMonitor == MonInit /\ InterpIdle /\ HeapInit /\ LoopInit /\ RunForInit /\ CallIdle /\ AllocIdle /\ SlotsIdle /\ LocksIdle /\ RegistryIdle /\ ReentryIdle /\ SizesIdle /\ FibersIdle

SpecMonitor == InitMonitor /\ [][NextMonitor]_vars

\* the Go scheduler runs every goroutine that can run: a thread woken
\* inside m.cond.Wait() re-locks the mutex and goes on
MonitorFairness ==
    \A t \in Threads : WF_vars(EnterResume(t)) /\ WF_vars(WaitResume(t))

SpecMonitorLive == InitMonitor /\ [][NextMonitor]_vars /\ MonitorFairness

InitInterp == InterpInit /\ MonInit /\ HeapInit /\ LoopInit /\ RunForInit /\ CallIdle /\ AllocIdle /\ SlotsIdle /\ LocksIdle /\ RegistryIdle /\ ReentryIdle /\ SizesIdle /\ FibersIdle

SpecInterp == InitInterp /\ [][NextInterp]_vars

InitFaults == InterpInitFaults /\ MonInit /\ HeapInit /\ LoopInit /\ RunForInit /\ CallIdle /\ AllocIdle /\ SlotsIdle /\ LocksIdle /\ RegistryIdle /\ ReentryIdle /\ SizesIdle /\ FibersIdle

SpecFaults == InitFaults /\ [][NextFaults]_vars

InitCall == CallInit /\ MonInit /\ InterpIdle /\ HeapInit /\ LoopInit /\ RunForInit /\ AllocIdle /\ SlotsIdle /\ LocksIdle /\ RegistryIdle /\ ReentryIdle /\ SizesIdle /\ FibersIdle

SpecCall == InitCall /\ [][NextCall]_vars

InitHeap == HeapInit /\ MonInit /\ InterpIdle /\ LoopInit /\ RunForInit /\ CallIdle /\ AllocIdle /\ SlotsIdle /\ LocksIdle /\ RegistryIdle /\ ReentryIdle /\ SizesIdle /\ FibersIdle

SpecHeap == InitHeap /\ [][NextHeap]_vars

InitLoop == LoopInit /\ MonInit /\ InterpIdle /\ HeapInit /\ RunForInit /\ CallIdle /\ AllocIdle /\ SlotsIdle /\ LocksIdle /\ RegistryIdle /\ ReentryIdle /\ SizesIdle /\ FibersIdle

SpecLoop == InitLoop /\ [][NextLoop]_vars

SpecRunFor == InitLoop /\ [][NextRunFor]_vars

\* the steps of the goroutine inside Run when nobody calls Stop (the
\* stopped channel is then never closed)
RunStep ==
    \/ TickStart
    \/ ReadNow
    \/ FireReadyTimers
    \/ SelectTask
    \/ SelectDefault
    \/ CheckTimers
    \/ CheckTasks
    \/ SleepDone

\* tasks and one-shot timers are handed to a loop that is not running, Run
\* is called, and nothing is added and Stop is not called while it runs;
\* the timers' deadlines lie within the time the clock covers
NextLoopLive ==
    \/ ClockTick
    \/ lpc = "idle" /\ Submit
    \/ \E delayMs \in 0..MaxDelay :
          lpc = "idle" /\ clock + delayMs <= MaxTime /\ SetTimeout(delayMs)
    \/ RunStart
    \/ RunStep

\* the goroutine inside Run keeps being scheduled, and time passes
SpecLoopLive ==
    InitLoop /\ [][NextLoopLive]_vars /\ WF_vars(RunStep) /\ WF_vars(ClockTick)

InitAlloc == AllocInit /\ MonInit /\ InterpIdle /\ LoopInit /\ RunForInit /\ CallIdle /\ SlotsIdle /\ LocksIdle /\ RegistryIdle /\ ReentryIdle /\ SizesIdle /\ FibersIdle

SpecAlloc == InitAlloc /\ [][NextAlloc]_vars


InitSlots == SlotsIdle /\ MonInit /\ InterpIdle /\ HeapInit /\ LoopInit /\ RunForInit /\ CallIdle /\ AllocIdle /\ LocksIdle /\ RegistryIdle /\ ReentryIdle /\ SizesIdle /\ FibersIdle

SpecSlots == InitSlots /\ [][NextSlots]_vars


InitDescriptor == DescriptorInit /\ MonInit /\ InterpIdle /\ HeapInit /\ LoopInit /\ RunForInit /\ AllocIdle /\ SlotsIdle /\ LocksIdle /\ RegistryIdle /\ ReentryIdle /\ SizesIdle /\ FibersIdle

SpecDescriptor == InitDescriptor /\ [][NextDescriptor]_vars


InitFrames == FramesInit /\ MonInit /\ HeapInit /\ LoopInit /\ RunForInit /\ CallIdle /\ AllocIdle /\ SlotsIdle /\ LocksIdle /\ RegistryIdle /\ ReentryIdle /\ SizesIdle /\ FibersIdle

SpecFrames == InitFrames /\ [][NextFrames]_vars


InitLocks == LocksIdle /\ MonInit /\ InterpIdle /\ HeapInit /\ LoopInit /\ RunForInit /\ CallIdle /\ AllocIdle /\ SlotsIdle /\ RegistryIdle /\ ReentryIdle /\ SizesIdle /\ FibersIdle

SpecLocks == InitLocks /\ [][NextLocks]_vars


InitParse == ParseInit /\ MonInit /\ InterpIdle /\ HeapInit /\ LoopInit /\ RunForInit /\ AllocIdle /\ SlotsIdle /\ LocksIdle /\ RegistryIdle /\ ReentryIdle /\ SizesIdle /\ FibersIdle

SpecParse == InitParse /\ [][NextParse]_vars


InitPool == PoolInit /\ MonInit /\ InterpIdle /\ HeapInit /\ LoopInit /\ RunForInit /\ AllocIdle /\ SlotsIdle /\ LocksIdle /\ RegistryIdle /\ ReentryIdle /\ SizesIdle /\ FibersIdle

SpecPool == InitPool /\ [][NextPool]_vars


InitRegistry == RegistryIdle /\ MonInit /\ InterpIdle /\ HeapInit /\ LoopInit /\ RunForInit /\ CallIdle /\ AllocIdle /\ SlotsIdle /\ LocksIdle /\ ReentryIdle /\ SizesIdle /\ FibersIdle

SpecRegistry == InitRegistry /\ [][NextRegistry]_vars


InitReentry == ReentryIdle /\ MonInit /\ InterpIdle /\ HeapInit /\ LoopInit /\ RunForInit /\ CallIdle /\ AllocIdle /\ SlotsIdle /\ LocksIdle /\ RegistryIdle /\ SizesIdle /\ FibersIdle

SpecReentry == InitReentry /\ [][NextReentry]_vars


InitSizes == SizesIdle /\ MonInit /\ InterpIdle /\ HeapInit /\ LoopInit /\ RunForInit /\ CallIdle /\ AllocIdle /\ SlotsIdle /\ LocksIdle /\ RegistryIdle /\ ReentryIdle /\ FibersIdle

SpecSizes == InitSizes /\ [][NextSizes]_vars


InitFibers == FibersIdle /\ MonInit /\ InterpIdle /\ HeapInit /\ LoopInit /\ RunForInit /\ CallIdle /\ AllocIdle /\ SlotsIdle /\ LocksIdle /\ RegistryIdle /\ ReentryIdle /\ SizesIdle

SpecFibers == InitFibers /\ [][NextFibers]_vars


(* ------------------------------------------------------------------ *)
(* Monitor: properties                                                 *)
(* ------------------------------------------------------------------ *)

InWait(t) == mpc[t] \in {"wait166", "wait170"}

\* t has returned from more Enters than Exits and is not inside Wait
Holds(t) == mpc[t] = "idle" /\ held[t] > 0

EnterOps == {"Enter", "EnterResume", "monitorenter"}

C1_Inv ==
    /\ Cardinality({t \in Threads : Holds(t)}) <= 1
    /\ \A t \in Threads : Holds(t) => (owner = t /\ entryCount = held[t])
    /\ \A t \in Threads :
         (lastOp[2] = t /\ lastOp[1] \in EnterOps /\ mres = "ok")
            => (owner = t /\ \A u \in Threads \ {t} : ~Holds(u))

C1_Step ==
    \A t \in Threads :
       /\ (mpc[t] = "enter124" /\ mpc'[t] = "idle")
             => (owner = NoThread /\ entryCount = 0 /\ owner' = t)
       /\ (lastOp'[2] = t /\ lastOp'[1] \in {"Enter", "monitorenter"}
              /\ owner \notin {NoThread, t})
             => (mpc'[t] = "enter124" /\ owner' = owner /\ entryCount' = entryCount)
       /\ (mpc[t] = "enter124" /\ owner \notin {NoThread, t}) => mpc'[t] = "enter124"

\* C1: at most one thread owns the monitor; an Enter returns only to a
\* caller that is then the owner while no other thread holds the monitor;
\* an Enter made while another thread owns the monitor stays blocked until
\* the entry count has dropped to zero.
C1_MutualExclusion == []C1_Inv /\ [][C1_Step]_vars

\* a thread that was blocked in Enter has acquired the monitor
C1_Witness == lastOp[1] = "EnterResume" /\ mres = "ok"

\* C2: between monitor operations entryCount >= 0 and the owner is set
\* exactly when entryCount > 0, after successful and failed calls alike.
C2_OwnerIffCount ==
    /\ entryCount >= 0
    /\ (owner # NoThread) <=> (entryCount > 0)

\* a call has failed while another thread owns the monitor reentrantly
C2_Witness == mres = IMSE /\ owner # NoThread /\ entryCount >= 2

\* C6: a Wait returns only if another thread has called Notify or NotifyAll
\* since the Wait began.
C6_WaitNeedsNotify ==
    \A t \in Threads :
        (lastOp = <<"WaitResume", t>> /\ mres = "ok") => notified[t]

OwnerOps == {"Exit", "Wait", "Notify", "NotifyAll"}

C7_ApiStep ==
    \A t \in Threads :
        (lastOp'[2] = t /\ lastOp'[1] \in OwnerOps /\ owner # t)
           => (mres' = IMSE /\ UNCHANGED <<owner, entryCount, waitSet>>)

\* C7 as claimed: Exit, Wait, Notify and NotifyAll by a non-owner return the
\* error and change nothing, and monitorexit by any non-owner thread ends
\* with the error.
C7_Original ==
    [][ /\ C7_ApiStep
        /\ \A t \in InterpThreads :
             (lastOp'[2] = t /\ lastOp'[1] = "monitorexit" /\ owner # t)
                => mres' = IMSE ]_vars

\* C7 (amended): Exit, Wait, Notify and NotifyAll by a non-owner return the
\* IllegalMonitorStateException error and leave owner, entry count and wait
\* set unchanged; monitorexit by a non-owner thread that has a JVM ends
\* with that error and changes nothing, and on a thread without a JVM
\* monitorexit does nothing and raises no error.
C7_NonOwnerRejected ==
    [][ /\ C7_ApiStep
        /\ \A t \in InterpThreads :
             (lastOp'[2] = t /\ lastOp'[1] = "monitorexit" /\ owner # t)
                => /\ UNCHANGED <<owner, entryCount, waitSet>>
                   /\ mres' = IF HasJVM(t) THEN IMSE ELSE "ok" ]_vars

\* a monitorexit by a JVM thread has failed while another thread owns the
\* monitor
C7_Witness ==
    /\ lastOp[1] = "monitorexit" /\ HasJVM(lastOp[2]) /\ mres = IMSE
    /\ owner \notin {NoThread, lastOp[2]}

\* C8: after n Enters on a free monitor and then k <= n Exits by the same
\* thread with nothing in between, every Exit has succeeded, the thread
\* still owns the monitor with entry count n - k while k < n, and once
\* k = n the owner is unset and the entry count is 0.
C8_NestedRelease ==
    nest # NoNest =>
        /\ mres = "ok"
        /\ IF nest[3] < nest[2]
           THEN owner = nest[1] /\ entryCount = nest[2] - nest[3]
           ELSE owner = NoThread /\ entryCount = 0

\* a thread has entered twice or more and exited as often
C8_Witness == nest[2] >= 2 /\ nest[3] = nest[2]

\* C9: while a thread is blocked in Wait it does not own the monitor, and
\* right after it began to wait the owner is unset and the entry count 0;
\* when Wait returns the caller is the only owner, the entry count is the
\* one it held when it called Wait, and it has left the wait set.
C9_WaitReleasesAndRestores ==
    \A t \in Threads :
        /\ InWait(t) => (owner # t /\ InCond(waitSet, t))
        /\ (lastOp = <<"Wait", t>> /\ mres = "none")
              => (owner = NoThread /\ entryCount = 0)
        /\ (lastOp = <<"WaitResume", t>> /\ mres = "ok")
              => /\ owner = t
                 /\ entryCount = held[t]
                 /\ ~InCond(waitSet, t)
                 /\ \A u \in Threads \ {t} : ~Holds(u)

\* a Wait made with entry count 2 has returned
C9_Witness ==
    lastOp[1] = "WaitResume" /\ mres = "ok" /\ entryCount >= 2

(* ------------------------------------------------------------------ *)
(* Interpreter: properties                                             *)
(* ------------------------------------------------------------------ *)

\* C3: whenever a callback-bridge call has returned, the frame stack depth
\* at its return equals the depth at its entry, whatever the callback did.
C3_BridgeDepthRestored ==
    lastBridge.count > 0 => lastBridge.exit = lastBridge.entry

\* a frame's exception table has an entry that covers the instruction the
\* frame is in and catches the class
HasHandler(frame, exClassName) ==
    \E k \in 1..Len(prog[frame.m].table) :
        EntryCatches(prog[frame.m].table[k], frame.pc - 1, exClassName)

\* the handler pc of the first such entry, in table order
HandlerOf(frame, exClassName) ==
    LET table == prog[frame.m].table
        first == CHOOSE k \in 1..Len(table) :
                    /\ EntryCatches(table[k], frame.pc - 1, exClassName)
                    /\ \A j \in 1..(k - 1) :
                          ~EntryCatches(table[j], frame.pc - 1, exClassName)
    IN  table[first].handlerPC

\* the frames, counted from the bottom, that can handle the last exception
Handling == { k \in 1..Len(lastThrow.before) :
                HasHandler(lastThrow.before[k], lastThrow.cls) }

TopHandling == CHOOSE k \in Handling : \A j \in Handling : j <= k

C5_Inv ==
    lastThrow.count > 0 =>
        IF Handling # {}
        THEN /\ Len(lastThrow.after) = TopHandling
             /\ \A j \in 1..(TopHandling - 1) : lastThrow.after[j] = lastThrow.before[j]
             /\ lastThrow.after[TopHandling] =
                    [lastThrow.before[TopHandling] EXCEPT
                        !.pc = HandlerOf(lastThrow.before[TopHandling], lastThrow.cls),
                        !.ostack = <<lastThrow.exRef>>]
             /\ lastThrow.err = NoErr
        ELSE /\ lastThrow.after = <<>>
             /\ lastThrow.err = UncaughtError(lastThrow.cls)

C5_Step ==
    lastThrow'.count # lastThrow.count =>
        /\ stack' = lastThrow'.after
        /\ IF lastThrow'.err = NoErr
           THEN runState' = "running" /\ bridge' = bridge
           ELSE IF InBridge
           THEN lastBridge'.count # lastBridge.count /\ lastBridge'.err = lastThrow'.err
           ELSE runState' = "error" /\ runErr' = lastThrow'.err

RECURSIVE ReachableFrom(_, _)
ReachableFrom(set, flds) ==
    LET more == (set \cup {flds[p] : p \in set}) \ {Nil}
    IN  IF more = set THEN set ELSE ReachableFrom(more, flds)

\* C4: after a collection GC(R) has completed with GC enabled, every heap id
\* whose object is reachable from R is still in the heap and every id whose
\* object is not reachable from R is gone.
C4_GCKeepsReachable ==
    lastGC.ran =>
        \A id \in DOMAIN lastGC.before :
            IF lastGC.before[id] \in ReachableFrom(lastGC.roots, lastGC.fields)
            THEN id \in DOMAIN lastGC.after /\ lastGC.after[id] = lastGC.before[id]
            ELSE id \notin DOMAIN lastGC.after

(* ------------------------------------------------------------------ *)
(* Event loop: properties                                              *)
(* ------------------------------------------------------------------ *)

\* the positions of the current tick's events that are timers / tasks
TimerEvents == {k \in 1..Len(tick.events) : tick.events[k].kind = "timer"}
TaskEvents == {k \in 1..Len(tick.events) : tick.events[k].kind = "task"}

\* the tick has passed its timer phase
PastTimerPhase == lpc \in {"select", "checktimers", "checktasks", "sleep"} \/ TaskEvents # {}

\* C10: in every tick all timers that were due at the tick's start (deadline
\* at or before the start time) fire, in order of deadline, before a task is
\* dequeued, and at most one task is run in the tick.
C10_TimersBeforeOneTask ==
    /\ PastTimerPhase =>
          \A d \in 0..MaxTime :
              Cardinality({k \in TimerEvents : tick.events[k].deadline = d}) >= tick.due[d]
    /\ \A i \in TaskEvents, j \in TimerEvents : j < i
    /\ \A i \in TimerEvents, j \in TimerEvents :
          i < j => tick.events[i].deadline <= tick.events[j].deadline
    /\ Cardinality(TaskEvents) <= 1

\* a tick that fired two timers of different deadlines and then ran one
\* task while another task was waiting
C10_Witness ==
    /\ \E i \in TimerEvents, j \in TimerEvents :
          tick.events[i].deadline < tick.events[j].deadline
    /\ TaskEvents # {}
    /\ tasks # <<>>

\* C11: once Stop has returned for a running loop (the stopped channel is
\* closed), no task callback and no timer callback is started any more: the
\* loop's counts of started callbacks stay as they are until Run returns.
C11_NoCallbackAfterStop ==
    [][stopped => (taskCount' = taskCount /\ timerCount' = timerCount)]_vars

\* C12: once RunFor has returned because its maximum duration elapsed, the
\* loop is stopped: IsRunning() is false.
C12_StoppedAfterTimeout == rfCaller = "timeout" => ~running

\* Run has returned with nothing left: every task submitted has run and
\* every timer scheduled has fired, and IsRunning() is false
RunComplete ==
    /\ lpc = "idle"
    /\ ~running
    /\ tasks = <<>>
    /\ timers = <<>>
    /\ taskCount = submitted
    /\ timerCount = scheduled

\* C13: with finitely many tasks and one-shot timers pending and no work
\* added while the loop runs, Run returns without Stop being called, after
\* every pending task has run and every pending timer has fired, each once
\* (never more callbacks started than tasks submitted and timers scheduled),
\* and IsRunning() is false afterwards.
C13_RunCompletes ==
    /\ [](taskCount <= submitted /\ timerCount <= scheduled)
    /\ (lpc # "idle") ~> RunComplete

\* Run has returned after running two tasks and firing two timers, one of
\* them not due when Run was called
C13_Witness ==
    /\ RunComplete
    /\ taskCount >= 2
    /\ timerCount >= 2
    /\ clock >= 1

\* C14: each time a periodic timer with interval p fires, it is put back
\* with a deadline equal to its previous deadline plus p, however late the
\* loop fired it.
C14_FixedRate ==
    [][lpc = "firelocked" /\ lpc' = "select" =>
          LET r == FireLoop(timers, now, <<>>)
          IN  \A k \in 1..Len(r.fired) :
                 r.fired[k].timer.interval > 0 =>
                    r.fired[k].put = r.fired[k].timer.deadline + r.fired[k].timer.interval]_vars

\* tasks are numbered 1, 2, ... in the order of their Submit calls: the
\* tasks not yet started are queued in that order, and the ones started are
\* those before them
C15_Inv == tasks = [i \in 1..(submitted - taskCount) |-> taskCount + i]

\* a callback is started only for the oldest queued task, which leaves the
\* queue
C15_Step ==
    taskCount' # taskCount =>
        /\ taskCount' = taskCount + 1
        /\ tasks # <<>>
        /\ tasks' = Tail(tasks)
        /\ tick'.events = Append(tick.events, TaskEvent(Head(tasks)))

C16_NullEntersPropagation ==
    (runState = "error" /\ runErr = NullArrayError) =>
        \A k \in 1..Len(stack) : ~HasHandler(stack[k], NullPointerException)

\* the loop is about to execute the opcode op, which has no implementation
\* (no category, or a category whose handler has no case for it)
AtUnimplemented(op) == ~HasCase(op) /\ Fetch(op)

\* C17: executing an opcode byte for which the interpreter has no
\* implementation ends the run at once with an error that names the opcode
\* and its program counter, so that no later instruction is executed.
C17_UnimplementedEndsRun ==
    [][\A op \in Opcodes :
          (AtUnimplemented(op) /\ stack' # stack) =>
              /\ runState' = "error"
              /\ runErr' = UnimplementedError(op, CurrentFrame(stack).pc)]_vars

\* the loop is about to execute the division or remainder op with a zero
\* divisor on top of the operand stack
AtZeroDivide(op) ==
    /\ Fetch(op)
    /\ Len(Fetched.ostack) >= 2
    /\ Fetched.ostack[Len(Fetched.ostack)].n = 0

\* the frame stack as the instruction leaves it for the propagation: the
\* opcode read, both operands popped
OperandsPopped ==
    WithTop([Fetched EXCEPT !.ostack = SubSeq(@, 1, Len(@) - 2)])

\* the frames of a stack, counted from the bottom, with a handler for cls
\* around their pc
HandlingIn(stk, cls) == {k \in 1..Len(stk) : HasHandler(stk[k], cls)}

C18_Step ==
    \A op \in {IDIV, IREM, LDIV, LREM} :
        (AtZeroDivide(op) /\ stack' # stack) =>
            LET H == HandlingIn(OperandsPopped, ArithmeticException)
                top == CHOOSE k \in H : \A j \in H : j <= k
            IN  /\ lastThrow'.count = lastThrow.count + 1
                /\ lastThrow'.cls = ArithmeticException
                /\ lastThrow'.before = OperandsPopped
                /\ IF H # {}
                   THEN /\ runState' = "running"
                        /\ Len(stack') = top
                        /\ \A j \in 1..(top - 1) : stack'[j] = stack[j]
                        /\ stack'[top].pc = HandlerOf(OperandsPopped[top], ArithmeticException)
                        /\ stack'[top].ostack = <<StrVal(<<ArithmeticException>>)>>
                   ELSE /\ runState' = "error"
                        /\ runErr' = UncaughtError(ArithmeticException)
                        /\ stack' = <<>>

ListedRuntimeExceptions ==
    { NullPointerException, ArithmeticException,
      "java/lang/ArrayIndexOutOfBoundsException",
      "java/lang/NegativeArraySizeException", "java/lang/ClassCastException",
      "java/lang/IllegalMonitorStateException", "java/lang/IllegalArgumentException",
      ISE, "java/lang/NumberFormatException" }

\* C19: a handler with catch type java/lang/RuntimeException matches every
\* thrown class among the well-known runtime exceptions (null pointer,
\* arithmetic, array index, negative array size, class cast, illegal monitor
\* state, illegal argument, illegal state, number format).
C19_RuntimeExceptionsMatch ==
    (answer.done /\ query.kind = "match" /\ query.catch = RTE
        /\ query.thrown \in ListedRuntimeExceptions) => answer.matches

\* the entries of the queried table that qualify: start_pc <= pc < end_pc
\* and a catch type that is 0 or names a class the thrown class matches
Qualifying ==
    { k \in 1..Len(query.table) :
        /\ query.table[k].startPC <= query.pc
        /\ query.pc < query.table[k].endPC
        /\ \/ query.table[k].catchType = 0
           \/ matchesException(query.thrown, GetClassName(query.table[k].catchType)) }

\* C20: FindExceptionHandler returns the handler pc of the first
\* exception-table entry, in table order, with start_pc <= pc < end_pc and a
\* catch type that is 0 or names a class the thrown class matches, and -1
\* when no entry qualifies; a pc equal to end_pc is not covered.
C20_FirstQualifyingEntry ==
    (answer.done /\ query.kind = "find") =>
        IF Qualifying = {} THEN answer.handlerPC = -1
        ELSE LET first == CHOOSE k \in Qualifying : \A j \in Qualifying : k <= j
             IN  answer.handlerPC = query.table[first].handlerPC

\* the first entry is a catch-any whose range ends at the pc, the second
\* covers the pc and has another handler, which is returned
C20_Witness ==
    /\ answer.done
    /\ query.kind = "find"
    /\ Len(query.table) = 2
    /\ query.table[1].endPC = query.pc
    /\ query.table[1].catchType = 0
    /\ query.table[1].handlerPC # query.table[2].handlerPC
    /\ answer.handlerPC = query.table[2].handlerPC

(* ------------------------------------------------------------------ *)
(* Heap.Alloc, Get and Free: properties                                *)
(* ------------------------------------------------------------------ *)

\* the ids that leave the object map in a step
Removed == (DOMAIN objects) \ (DOMAIN objects')

\* every returned id is greater than every id returned before its call
\* began, no id is returned twice, and Get of a returned id gives the
\* object of that call or, once freed, nil
C21_Inv ==
    /\ \A k \in DOMAIN returned : returned[k].id > returned[k].floor
    /\ \A j, k \in DOMAIN returned : j # k => returned[j].id # returned[k].id
    /\ \A k \in DOMAIN returned : Get(returned[k].id) \in {returned[k].obj, Nil}
    /\ gcRuns = 0

\* an id leaves the map only in a Free of that id, which counts one free;
\* every other step, a Free of an absent id included, keeps every stored
\* object and the free count; a returning Alloc has its object stored
C21_Step ==
    /\ \A id \in DOMAIN objects :
           id \in DOMAIN objects' => objects'[id] = objects[id]
    /\ Removed # {} =>
           /\ Cardinality(Removed) = 1
           /\ Removed \subseteq ReturnedIds
           /\ freeCount' = freeCount + 1
    /\ Removed = {} => freeCount' = freeCount
    /\ Len(returned') > Len(returned) =>
           LET r == returned'[Len(returned')]
           IN  r.id \in DOMAIN objects' /\ objects'[r.id] = r.obj

\* C21: with automatic collection disabled, Alloc returns an id greater
\* than every id returned before the call (so ids are unique, also when
\* Allocs overlap), Get(id) returns the object passed to that Alloc until
\* Free(id), after Free(id) Get(id) is nil and the free count is one
\* higher, and a further Free(id) changes nothing.
C21_AllocGetFree == [](C21_Inv) /\ [][C21_Step]_vars

\* two overlapping Allocs have returned, one id has been freed and
\* freed again is absent, the other is still stored
C21_Witness ==
    /\ Len(returned) = 2
    /\ returned[1].id > returned[2].id
    /\ Get(returned[1].id) = Nil
    /\ Get(returned[2].id) = returned[2].obj
    /\ freeCount = 1


\* the statement as written: ids come back in increasing order, every
\* returned id greater than every id returned earlier
C21_ReturnOrder ==
    \A j, k \in DOMAIN returned : j < k => returned[j].id < returned[k].id

(* ------------------------------------------------------------------ *)
(* OperandStack and LocalVars: properties                              *)
(* ------------------------------------------------------------------ *)

\* the two cells of a slot agree with the kind of its latest write
CellsAgree(cells, i, kind) ==
    /\ kind = "primitive" => RefAt(cells, i) = EmptyRef
    /\ kind = "reference" => SlotAt(cells, i) = 0

\* C23: after any sequence of operand-stack and local-variable
\* operations, every slot in use whose latest write was a primitive
\* write has an empty reference cell and every slot whose latest write
\* was a reference write has zero primitive bits.
C23_CellsExclusive ==
    /\ \A i \in 0..(Top - 1) : CellsAgree(opstack.cells, i, wrote.stack[i + 1])
    /\ \A i \in LocalIndexes : CellsAgree(locals, i, wrote.locals[i + 1])

(* ------------------------------------------------------------------ *)
(* Method descriptors: properties                                      *)
(* ------------------------------------------------------------------ *)

\* C26: for every method descriptor, countArgs equals the length of
\* parseArgTypes and equals the number of top-level parameter types:
\* each primitive, object and array type, of any element type and any
\* number of dimensions, counts as exactly one argument.
C26_OnePerParameter ==
    /\ (answer.counted /\ answer.parsed) => answer.count = Len(answer.types)
    /\ answer.counted => answer.count = Len(query.params)
    /\ answer.parsed => Len(answer.types) = Len(query.params)

(* ------------------------------------------------------------------ *)
(* Interpreter: the program counter                                    *)
(* ------------------------------------------------------------------ *)

\* the operand bytes that follow an opcode in the code array
OperandBytes(opcode) ==
    IF opcode \in {INVOKEVIRTUAL, INVOKESPECIAL, INVOKESTATIC, OP_NEW, IF_ACMPEQ} THEN 2
    ELSE 0

\* the pcs at which the instructions of a code array begin
RECURSIVE StartsFrom(_, _)
StartsFrom(code, pc) ==
    IF pc >= Len(code) THEN {}
    ELSE {pc} \cup StartsFrom(code, pc + 1 + OperandBytes(code[pc + 1]))

InstructionStarts(code) == StartsFrom(code, 0)

\* C24: whenever the dispatch loop fetches an opcode, the frame's
\* program counter points at the first byte of an instruction.
C24_FetchAtInstruction ==
    (LoopContinues /\ CurrentFrame(stack).pc < Len(Code(CurrentFrame(stack))))
        => CurrentFrame(stack).pc \in InstructionStarts(Code(CurrentFrame(stack)))


(* ------------------------------------------------------------------ *)
(* Calls and returns: properties                                       *)
(* ------------------------------------------------------------------ *)

\* the parameter and return types the programs' methods are declared with
DeclaredTypes ==
    { <<"I">>, <<"J">>, ObjectType(MainClass), ObjectType("java/lang/String"),
      <<"[", "[", "I">> }
ParamLists ==
    {<<>>} \cup { <<a>> : a \in DeclaredTypes }
    \cup { <<a, b>> : a \in DeclaredTypes, b \in DeclaredTypes }
ReturnTypes == { <<"V">>, <<"I">>, <<"J">>, ObjectType(MainClass) }

\* the parameter list a descriptor was written from
DeclaredParams(desc) ==
    CHOOSE params \in ParamLists : \E ret \in ReturnTypes : DescriptorOf(params, ret) = desc

\* the local a declared argument is expected in
ExpectedLocal(type, entry) ==
    IF Head(type) \in {"L", "["} THEN [slot |-> 0, ref |-> entry]
    ELSE [slot |-> entry.n, ref |-> NullVal]

\* the Methodref the invoke instruction at the current pc names
MethodRefAtPc == CP[ReadU2(Fetched)]

\* the invoke instruction op is about to run, it names a method with code
\* in the class, and the caller's operand stack holds the receiver (for
\* first = 1, an object) and the declared arguments
InvokesBytecode(op, first) ==
    /\ Fetch(op)
    /\ MethodRefAtPc.cls = MainClass
    /\ GetMethod(MethodRefAtPc.name, MethodRefAtPc.desc)
    /\ LET n == Len(DeclaredParams(MethodRefAtPc.desc))
           have == Len(CurrentFrame(stack).ostack)
       IN  /\ have >= n + first
           /\ first = 1 => CurrentFrame(stack).ostack[have - n].kind = "obj"

\* what C25 says of the step of such an instruction
ArgumentsPassed(first) ==
    LET params == DeclaredParams(MethodRefAtPc.desc)
        n == Len(params)
        caller == CurrentFrame(stack)
        have == Len(caller.ostack)
    IN  /\ runState' = "running"
        /\ Len(stack') = Len(stack) + 1
        /\ stack'[Len(stack)].ostack = SubSeq(caller.ostack, 1, have - n - first)
        /\ Len(stack'[Len(stack')].locals) >= n + first
        /\ \A k \in 0..(n - 1) :
              stack'[Len(stack')].locals[k + first + 1] =
                  ExpectedLocal(params[k + 1], caller.ostack[have - n + 1 + k])
        /\ first = 1 =>
              stack'[Len(stack')].locals[1] = [slot |-> 0, ref |-> caller.ostack[have - n]]

C25_Step ==
    /\ (InvokesBytecode(INVOKESTATIC, 0) /\ vars' # vars) => ArgumentsPassed(0)
    /\ (InvokesBytecode(INVOKEVIRTUAL, 1) /\ vars' # vars) => ArgumentsPassed(1)
    /\ (InvokesBytecode(INVOKESPECIAL, 1) /\ vars' # vars) => ArgumentsPassed(1)

\* C25: an invoke of a bytecode method with n declared parameters removes
\* exactly n entries (invokestatic) or n + 1 entries (invokevirtual,
\* invokespecial) from the caller's operand stack, pushes one frame, and
\* puts the k-th argument in local k (static) or k + 1 with the receiver in
\* local 0 (instance), references in the reference cell and all other
\* values in the primitive cell, unchanged
C25_ArgumentsInLocals == [][C25_Step]_vars

\* an invokespecial is about to run whose method cannot be resolved, with
\* the receiver and the declared arguments on the caller's operand stack
SpecialUnresolved ==
    /\ Fetch(INVOKESPECIAL)
    /\ ~(MethodRefAtPc.cls = MainClass /\ GetMethod(MethodRefAtPc.name, MethodRefAtPc.desc))
    /\ Len(CurrentFrame(stack).ostack) >= Len(DeclaredParams(MethodRefAtPc.desc)) + 1

C27_Step ==
    (SpecialUnresolved /\ vars' # vars) =>
        LET n == Len(DeclaredParams(MethodRefAtPc.desc))
            caller == CurrentFrame(stack)
        IN  IF MethodRefAtPc.name = "<init>"
            THEN /\ runState' = "running"
                 /\ runErr' = NoErr
                 /\ Len(stack') = Len(stack)
                 /\ CurrentFrame(stack').ostack =
                        SubSeq(caller.ostack, 1, Len(caller.ostack) - n - 1)
            ELSE /\ runState' = "error"
                 /\ runErr' # NoErr

\* C27: an invokespecial of <init> whose class cannot be loaded or has no
\* such method removes exactly the argument entries and the receiver from
\* the caller's operand stack, pushes no frame and returns no error; an
\* invokespecial of any other unresolved method returns an error
C27_ConstructorAbsorbed == [][C27_Step]_vars

\* C22: while the bytecode's own pushes and pops respect max_stack and
\* max_locals, no operand-stack or local access leaves its bounds (no
\* access panics) and every frame's operand stack holds at most max_stack
\* entries
C22_WithinDeclaredSizes ==
    /\ runState # "panic"
    /\ \A k \in 1..Len(stack) : Len(stack[k].ostack) <= prog[stack[k].m].maxStack

ReturnOps == {RETURN, IRETURN, LRETURN, ARETURN}

\* the return instruction op is about to run; a value-returning form finds
\* its value on top of the frame's operand stack
Returning(op) ==
    /\ Fetch(op)
    /\ op # RETURN => CurrentFrame(stack).ostack # <<>>

C28_Step ==
    \A op \in ReturnOps :
        (Returning(op) /\ vars' # vars) =>
            LET depth == Len(stack)
                frame == CurrentFrame(stack)
            IN  /\ Len(stack') = depth - 1
                /\ runState' = "running"
                /\ runErr' = NoErr
                /\ depth > 1 =>
                      /\ SubSeq(stack', 1, depth - 2) = SubSeq(stack, 1, depth - 2)
                      /\ stack'[depth - 1] =
                            IF op = RETURN THEN stack[depth - 1]
                            ELSE [stack[depth - 1] EXCEPT !.ostack =
                                     Append(@, frame.ostack[Len(frame.ostack)])]

\* the loop with no frame left can only end, and ends with a nil error
C28_Exit ==
    (stack = <<>> /\ runState = "running" /\ vars' # vars) =>
        (runState' = "done" /\ runErr' = NoErr /\ stack' = <<>>)

\* C28: return, ireturn, lreturn and areturn reduce the frame-stack depth
\* by one; a value-returning form adds one entry, the returned value, to the
\* caller's operand stack, return leaves it unchanged; when the last frame
\* was popped the interpreter loop ends without error
C28_Returns == [][C28_Step /\ C28_Exit]_vars

\* areturn has handed the object helper(int, Main) was called with back
\* to main
C28_Witness ==
    /\ prog \in StaticIntRef
    /\ runState = "running"
    /\ Len(stack) = 1
    /\ stack[1].pc > 3
    /\ stack[1].ostack = <<ObjVal(MainClass)>>


(* ------------------------------------------------------------------ *)
(* Shared structures: properties                                      *)
(* ------------------------------------------------------------------ *)

\* C29: the class cache, the monitor map, the native registry and the
\* event-loop queues are each serialised by their own lock: no two
\* goroutines are at the same time inside a write, or inside a write and a
\* read, of the same structure
C29_Serialised ==
    \A g \in Threads : \A h \in Threads \ {g} :
        ~(/\ Access(gpc[g].at).mode = "write"
          /\ Access(gpc[h].at).mode \in {"read", "write"}
          /\ Access(gpc[h].at).structure = Access(gpc[g].at).structure)


(* ------------------------------------------------------------------ *)
(* Class files: properties                                            *)
(* ------------------------------------------------------------------ *)

\* C30: for an input with a wrong magic number, an input that ends before
\* a field the decoder reads, or an input with an unknown constant-pool
\* tag, Parse returns a decode error and no class image; it does not crash
C30_DecodeError ==
    (query.kind = "parse" /\ query.defect # "none" /\ answer.phase = "end") =>
        (answer.outcome = "error" /\ answer.err # NoErr)

\* a whole, undamaged class image is decoded
WholeImageParsed ==
    (query.kind = "parse" /\ query.defect = "none" /\ answer.phase = "end") =>
        (answer.outcome = "class" /\ answer.reader.pos = Len(query.data))

\* a wrong magic number in an input of four bytes or more is an error
BadMagicIsError ==
    (query.kind = "parse" /\ query.defect = "magic" /\ answer.phase = "end") =>
        answer.outcome = "error"


(* ------------------------------------------------------------------ *)
(* Constant pool: properties                                          *)
(* ------------------------------------------------------------------ *)

\* the index the class file gives entry k of a list of entries:
\* 1 for the first, and after each entry the indices it takes
RECURSIVE NumberOf(_, _)
NumberOf(entries, k) ==
    IF k = 1 THEN 1 ELSE NumberOf(entries, k - 1) + IndicesTaken(entries[k - 1])

\* the pool indices that hold no entry: 0, and the one after each 8-byte
\* constant
EmptyIndices(entries) ==
    {0} \cup { NumberOf(entries, k) + 1 : k \in { j \in 1..Len(entries) : IndicesTaken(entries[j]) = 2 } }

\* C31: a decoded pool of declared count n has the indices 0..n-1; index 0
\* and the index after each long or double hold no entry and resolve to
\* nothing through the accessors; every other index holds the entry the
\* class file numbers with it
C31_PoolIndices ==
    (query.kind = "pool" /\ answer.phase = "decoded") =>
        /\ Len(answer.cp) = Uint16(query.data, 0)
        /\ \A k \in 1..Len(query.entries) :
              answer.cp[NumberOf(query.entries, k) + 1] = query.entries[k]
        /\ \A i \in EmptyIndices(query.entries) \cap (0..(Len(answer.cp) - 1)) :
              /\ answer.cp[i + 1] = NoEntry
              /\ GetUtf8(answer.cp, i) = <<>>
              /\ ClassNameAt(answer.cp, i) = <<>>
        /\ (answer.index \in EmptyIndices(query.entries)) =>
              (answer.utf8 = <<>> /\ answer.className = <<>>)

\* a pool with a long followed by another entry has been decoded and the
\* accessors were called on the index after the long
C31_Witness ==
    /\ query.kind = "pool"
    /\ answer.phase = "decoded"
    /\ Len(query.entries) = 3
    /\ query.entries[1].tag = CONSTANT_Utf8
    /\ query.entries[2].tag = CONSTANT_Long
    /\ query.entries[3].tag = CONSTANT_Class
    /\ answer.cp[5] = query.entries[3]
    /\ answer.index = 3
    /\ answer.utf8 = <<>>


(* ------------------------------------------------------------------ *)
(* Monitor registry: properties                                       *)
(* ------------------------------------------------------------------ *)

\* every monitor a GetOrCreateMonitor call returned for a reference is the
\* one the map holds for it
OneMonitorPerReference ==
    \A pair \in handedOut : monitors[pair[1]] = pair[2]

\* a MONITOREXIT of a goroutine that entered on the reference has the
\* monitor its latest MONITORENTER on it acquired
ExitReachesEntered ==
    \A g \in Threads :
        (/\ regPc[g].at = "have"
         /\ regPc[g].op = "monitorexit"
         /\ Len(enteredWith[g][regPc[g].obj]) > 0)
        => regPc[g].mon = enteredWith[g][regPc[g].obj][Len(enteredWith[g][regPc[g].obj])]

\* an entry of the map is never removed or replaced
EntriesKept ==
    \A r \in LockRefs : monitors[r] # NoMonitor => monitors'[r] = monitors[r]

\* C32: GetOrCreateMonitor returns the same monitor for the same reference
\* on every call and from every thread, concurrent first uses included; a
\* monitor once created is never removed, so a monitorexit reaches the
\* monitor the matching monitorenter acquired.
C32_SameMonitor ==
    [](OneMonitorPerReference /\ ExitReachesEntered) /\ [][EntriesKept]_vars

\* a goroutine's matching monitorexit holds the monitor while the other
\* goroutine holds the monitor of the same reference from its own call
C32_Witness ==
    \E g \in Threads, h \in Threads :
        /\ g # h
        /\ regPc[g].at = "have"
        /\ regPc[g].op = "monitorexit"
        /\ Len(enteredWith[g][regPc[g].obj]) > 0
        /\ regPc[h].at = "have"
        /\ regPc[h].obj = regPc[g].obj
        /\ regPc[h].mon = regPc[g].mon



(* ------------------------------------------------------------------ *)
(* Heap: the collection started by Alloc                              *)
(* ------------------------------------------------------------------ *)

\* the step is an Alloc whose byte total passed the threshold and ran GC
AllocCollected == nextID' = nextID + 1 /\ gcRuns' = gcRuns + 1

\* C33: when an Alloc raises the byte total above the threshold and starts
\* a collection, the object just allocated, and every object referenced
\* from it, is still in the heap afterwards: Get on the returned id yields
\* the object.
C33_AllocSurvivesGC ==
    [][AllocCollected =>
          /\ nextID' \in DOMAIN objects'
          /\ \A id \in DOMAIN objects :
                objects[id] \in ReachableFrom({fields[p] : p \in Ptrs} \ {Nil}, fields)
                    => id \in DOMAIN objects']_vars



(* ------------------------------------------------------------------ *)
(* Callback bridge: the frames it runs                                *)
(* ------------------------------------------------------------------ *)

\* the step executes an instruction inside a callback-bridge call: the
\* bridge's loop has fetched at the current frame and something changed
BridgeExecutes ==
    /\ InBridge
    /\ LoopContinues
    /\ CurrentFrame(stack).pc < Len(Code(CurrentFrame(stack)))
    /\ vars' # vars

\* the callback frame of the bridge call in progress is off the stack
CallbackFrameLeft == InBridge /\ ~ContainsFrame(stack, bridge.target)

\* frames get their identities in creation order: the frames on the stack
\* at bridge entry are older than the callback frame, those pushed above
\* it are younger
C35_Step ==
    /\ BridgeExecutes =>
          /\ CurrentFrame(stack).id >= bridge.target
          /\ Len(stack) > bridge.entry
    /\ (CallbackFrameLeft /\ vars' # vars) =>
          /\ bridge' = NoBridge
          /\ stack' = stack
          /\ lastBridge'.count = lastBridge.count + 1

\* C35: a callback-bridge call executes only instructions of the callback
\* frame and of frames pushed above it, and returns as soon as the callback
\* frame has left the stack, without executing an instruction of a frame
\* that was on the stack when the bridge was entered.
C35_BridgeRunsCallbackOnly == [][C35_Step]_vars

\* inside a bridge entered above main's frame, a frame pushed above the
\* callback frame is about to execute
C35_Witness ==
    /\ InBridge
    /\ bridge.entry >= 1
    /\ Len(stack) > bridge.entry + 1
    /\ LoopContinues
    /\ CurrentFrame(stack).pc < Len(Code(CurrentFrame(stack)))



(* ------------------------------------------------------------------ *)
(* Monitor: who a notification wakes                                  *)
(* ------------------------------------------------------------------ *)

\* the threads of the wait set that are parked in m.cond.Wait()
ParkedWaiters == {u \in Threads : InCond(waitSet, u) /\ InCond(condQ, u)}

\* the step is a Notify / NotifyAll call by the owner
NotifyByOwner == lastOp'[1] = "Notify" /\ owner = lastOp'[2]
NotifyAllByOwner == lastOp'[1] = "NotifyAll" /\ owner = lastOp'[2]

\* C34: a Notify by the owner, made while threads of the wait set are
\* parked, wakes at least one of them, also when other threads are blocked
\* in Enter; a NotifyAll by the owner wakes every one of them.
C34_NotifyWakesWaiter ==
    [][/\ (NotifyByOwner /\ ParkedWaiters # {}) =>
              \E u \in ParkedWaiters : ~InCond(condQ', u)
       /\ NotifyAllByOwner =>
              \A u \in ParkedWaiters : ~InCond(condQ', u)]_vars



(* ------------------------------------------------------------------ *)
(* Monitor: progress of the threads blocked in Enter                  *)
(* ------------------------------------------------------------------ *)

BlockedInEnter(t) == mpc[t] = "enter124"

\* every owner eventually exits the monitor or waits on it
OwnersLetGo == \A t \in Threads : []<>(owner # t)

\* C37 as stated: under fair scheduling, if every owner eventually exits or
\* waits, every thread blocked in Enter eventually becomes the owner.
C37_Original ==
    OwnersLetGo => \A t \in Threads : BlockedInEnter(t) ~> (owner = t)

\* the monitor is free while threads are blocked in Enter
FreeWithBlocked == owner = NoThread /\ \E t \in Threads : BlockedInEnter(t)

\* whenever the monitor is free while threads are blocked in Enter, a thread
\* inside m.cond.Wait() has been woken and is on its way to the mutex
NoWakeUpLost == FreeWithBlocked => \E u \in Threads : Woken(u)

\* C37 (amended): no wake-up is lost: whenever the monitor is free while
\* threads are blocked in Enter, a parked thread has been woken, and under
\* fair scheduling the monitor is then taken again; which thread takes it
\* is not determined, a thread blocked in Enter can be overtaken.
C37_NoWakeUpLost == []NoWakeUpLost /\ (FreeWithBlocked ~> owner # NoThread)

\* the monitor is free, one thread blocked in Enter has been woken and
\* another is still parked
C37_Witness ==
    /\ owner = NoThread
    /\ \E t \in Threads, u \in Threads :
          /\ t # u
          /\ BlockedInEnter(t) /\ Woken(t)
          /\ BlockedInEnter(u) /\ InCond(condQ, u)



(* ------------------------------------------------------------------ *)
(* Event loop, several callers: properties                            *)
(* ------------------------------------------------------------------ *)

\* the goroutine waits in el.mu.Lock() for a lock it holds itself: it
\* waits forever, and with it every caller of the loop that needs el.mu
SelfDeadlocked(g) == runPc[g].at = "calling" /\ loopMu = g

\* C36: a callback run by the event loop, task or timer, can call
\* SetTimeout, SetInterval, Stop, IsRunning or PendingTimers on the same
\* loop and return: the loop never blocks forever because of such a call.
C36_CallbackCallsReturn == \A g \in Runners : ~SelfDeadlocked(g)

\* C38: at most one goroutine executes the loop body of an event loop at
\* any time, for every interleaving of Run, RunFor and Stop calls.
C38_OneLoopBody == Cardinality({g \in Runners : InLoopBody(g)}) <= 1



(* ------------------------------------------------------------------ *)
(* Heap byte accounting: properties                                   *)
(* ------------------------------------------------------------------ *)

\* C39: between heap operations the heap's estimated byte total equals the
\* sum of the size estimates of the objects now in the heap and is never
\* negative, for every sequence of Alloc, Free (repeated or of unknown ids),
\* GC and field updates on allocated objects.
C39_BytesMatchObjects ==
    /\ byteTotal = TotalOf(heapOf, DOMAIN heapOf)
    /\ byteTotal >= 0



(* ------------------------------------------------------------------ *)
(* Scheduler and fibers: properties                                   *)
(* ------------------------------------------------------------------ *)

\* the fiber's task has returned or panicked
TaskEnded(f) == taskPc[f] = "ended"

\* C40: every fiber made by Spawn is Dead when its task has returned or
\* panicked and is never alive again afterwards (so that WaitAll returns
\* once every spawned task has ended).
C40_DeadStaysDead ==
    [][\A f \in Fibers : TaskEnded(f)' => ~IsAlive(f)']_vars


====
